---- MODULE Spec2Model ----
(***************************************************************************)
(* A model of macropadd: the layer table and the active layer stack of    *)
(* Macropadd (main.py), layer construction and the layer file watcher     *)
(* (layer.py), action parsing (action.py) and the outbound message queue  *)
(* of the HAL (hal.py).                                                    *)
(*                                                                         *)
(* Python objects are compared by identity (Layer defines no __eq__), so   *)
(* every Layer carries the identity <<generation, table key>> of the parse *)
(* that built it; record equality in the model is then object identity.    *)
(* Strings that the code slices or encodes (action names, layer names) are *)
(* sequences of one-character strings; the other strings are atoms.        *)
(***************************************************************************)
EXTENDS Integers, Sequences, FiniteSets, TLC

\* ------------------------------------------------------------------ bounds
\* successful reloads after startup (each builds new Layer objects)
MaxReloads == 2
\* length the active stack may reach (the code does not bound it)
MaxStack == 4
\* messages the outbound queue may hold (queue.Queue() is unbounded)
MaxQueue == 2
\* last value of the clock, in ticks of 250 ms
MaxTime == 4
\* the most messages the queue holds while no device is connected
MaxBacklog == 8
\* WM_HOTKEY messages waiting for the hotkey thread
MaxMessages == 2

\* ------------------------------------------------------- program constants
\* on_modified ignores events less than 0.5 s = 2 ticks after the last trigger
DebounceTicks == 2
\* send_profile_name: one type byte and an 18 byte name field
ProfileMsgLen == 19
\* send_key_names: every label is cut and padded to 4 characters
LabelLen == 4
\* delayMs defaults of RepeatAction.parse and SequentialAction.parse
DefaultDelayMs == 20

\* Python's None, for each type of value it stands in for: a name or label
\* (a character sequence), an application, an action, a layer
None == <<"<None>">>
NoApplication == "<None>"
NoAction == [kind |-> "None"]
NoLayer == [id |-> <<0, "<None>">>]

\* keys.py is not among the sources: the twelve physical keys, in label order
VALID_KEY_NAMES ==
  <<"F13", "F14", "F15", "F16", "F17", "F18", "F19", "F20", "F21", "F22", "F23", "F24">>

KeySet == {VALID_KEY_NAMES[i] : i \in 1..Len(VALID_KEY_NAMES)}

\* f"F{i}" as a character sequence
KeyChars ==
  [k \in KeySet |->
     CASE k = "F13" -> <<"F", "1", "3">> [] k = "F14" -> <<"F", "1", "4">>
       [] k = "F15" -> <<"F", "1", "5">> [] k = "F16" -> <<"F", "1", "6">>
       [] k = "F17" -> <<"F", "1", "7">> [] k = "F18" -> <<"F", "1", "8">>
       [] k = "F19" -> <<"F", "1", "9">> [] k = "F20" -> <<"F", "2", "0">>
       [] k = "F21" -> <<"F", "2", "1">> [] k = "F22" -> <<"F", "2", "2">>
       [] k = "F23" -> <<"F", "2", "3">> [] k = "F24" -> <<"F", "2", "4">>]

\* ------------------------------------------------------------------ actions
\* The five action classes of action.py; an action is a record of its fields.
HotkeyAction(hotkey, name) ==
  [kind |-> "Hotkey", name |-> name, hotkey |-> hotkey]

TypeAction(text, name) ==
  [kind |-> "Type", name |-> name, text |-> text]

ActivateWindowAction(program_path, name) ==
  [kind |-> "Activate", name |-> name, program_path |-> program_path]

SequentialAction(actions, name, delay_ms) ==
  [kind |-> "Sequence", name |-> name, actions |-> actions, delay_ms |-> delay_ms]

RepeatAction(inner, name, count, delay_ms) ==
  [kind |-> "Repeat", name |-> name, inner |-> inner, count |-> count,
   delay_ms |-> delay_ms]

\* A YAML value is a mapping (a function on its keys); a value that is no
\* mapping is the mapping with the single key "scalar".
IsDict(v) == "scalar" \notin DOMAIN v

\* dict.get(key, default)
Get(d, key, default) == IF key \in DOMAIN d THEN d[key] ELSE default

\* The outcome of a parse: a value, None, or a raised exception.
Ok(v) == [st |-> "ok", v |-> v]
RetNone == [st |-> "none", v |-> None]
Raised == [st |-> "raise", v |-> None]

RECURSIVE parse_action(_)
RECURSIVE ParseSteps(_, _)

\* the loop of SequentialAction.parse over data['sequence']['steps']
ParseSteps(steps, acc) ==
  IF steps = <<>> THEN Ok(acc)
  ELSE LET a == parse_action(Head(steps))
       IN IF a.st # "ok" THEN Raised
          ELSE ParseSteps(Tail(steps), Append(acc, a.v))

SequentialActionParse(data) ==
  IF ~IsDict(data["sequence"]) \/ "steps" \notin DOMAIN data["sequence"] THEN Raised
  ELSE LET r == ParseSteps(data["sequence"]["steps"], <<>>)
       IN IF r.st # "ok" THEN Raised
          ELSE Ok(SequentialAction(r.v, Get(data, "name", <<>>),
                                   Get(data["sequence"], "delayMs", DefaultDelayMs)))

RepeatActionParse(data) ==
  IF ~IsDict(data["repeat"]) \/ "action" \notin DOMAIN data["repeat"] THEN Raised
  ELSE LET inner == parse_action(data["repeat"]["action"])
       IN IF inner.st # "ok" THEN Raised
          ELSE Ok(RepeatAction(inner.v, Get(data, "name", <<>>),
                               Get(data["repeat"], "count", 0),
                               Get(data["repeat"], "delayMs", DefaultDelayMs)))

\* the variants tried in the opposite order
ParseActionReversed(spec) ==
  IF ~IsDict(spec) THEN RetNone
  ELSE IF "repeat" \in DOMAIN spec THEN RepeatActionParse(spec)
  ELSE IF "sequence" \in DOMAIN spec THEN SequentialActionParse(spec)
  ELSE IF "activateWindow" \in DOMAIN spec
         THEN Ok(ActivateWindowAction(spec["activateWindow"], Get(spec, "name", <<>>)))
  ELSE IF "type" \in DOMAIN spec
         THEN Ok(TypeAction(spec["type"], Get(spec, "name", <<>>)))
  ELSE IF "hotkey" \in DOMAIN spec
         THEN Ok(HotkeyAction(spec["hotkey"], Get(spec, "name", <<>>)))
  ELSE Raised

parse_action(spec) ==
  IF ~IsDict(spec) THEN RetNone
  ELSE IF "hotkey" \in DOMAIN spec
         THEN Ok(HotkeyAction(spec["hotkey"], Get(spec, "name", <<>>)))
  ELSE IF "type" \in DOMAIN spec
         THEN Ok(TypeAction(spec["type"], Get(spec, "name", <<>>)))
  ELSE IF "activateWindow" \in DOMAIN spec
         THEN Ok(ActivateWindowAction(spec["activateWindow"], Get(spec, "name", <<>>)))
  ELSE IF "sequence" \in DOMAIN spec THEN SequentialActionParse(spec)
  ELSE IF "repeat" \in DOMAIN spec THEN RepeatActionParse(spec)
  ELSE Raised

\* ------------------------------------------------------------------- layers
\* a layer built with a binding for the dial turned forward
LayerWithDial(id, name) ==
  [id |-> id, name |-> name, application |-> NoApplication, key_actions |-> <<>>,
   encoder_inc_action |-> HotkeyAction("volume up", <<>>),
   encoder_dec_action |-> NoAction, encoder_btn_action |-> NoAction]

\* Layer.__init__: the encoder actions are None and nothing ever sets them.
Layer(id, name) ==
  [id |-> id, name |-> name, application |-> NoApplication, key_actions |-> <<>>,
   encoder_inc_action |-> NoAction, encoder_dec_action |-> NoAction,
   encoder_btn_action |-> NoAction]

\* d[k] = v on a dict
Put(d, k, v) == [x \in DOMAIN d \cup {k} |-> IF x = k THEN v ELSE d[x]]

RECURSIVE FromSpecKeys(_, _, _)
\* the loop of Layer.from_spec_dict over the fields of the record
FromSpecKeys(spec, keys, l) ==
  IF keys = {} THEN Ok(l)
  ELSE LET k == CHOOSE x \in keys : TRUE
           a == parse_action(spec[k])
       IN IF a.st = "raise" THEN Raised
          ELSE FromSpecKeys(spec, keys \ {k},
                 IF a.st = "none" THEN l
                 ELSE [l EXCEPT !.key_actions = Put(l.key_actions, k, a.v)])

from_spec_dict(spec, id) ==
  IF ~IsDict(spec) \/ "name" \notin DOMAIN spec THEN Raised
  ELSE FromSpecKeys(spec, DOMAIN spec \cap KeySet,
         [Layer(id, spec["name"]) EXCEPT
            !.application = Get(spec, "application", NoApplication)])

\* a default layer that binds the first four keys alone
CreateDefaultLayerSparse(gen) ==
  [Layer(<<gen, "<default>">>, <<"d", "e", "f", "a", "u", "l", "t">>) EXCEPT
     !.key_actions = [k \in {"F13", "F14", "F15", "F16"} |-> HotkeyAction(k, KeyChars[k])]]

create_default_layer(gen) ==
  [Layer(<<gen, "<default>">>, <<"d", "e", "f", "a", "u", "l", "t">>) EXCEPT
     !.key_actions = [k \in KeySet |-> HotkeyAction(k, KeyChars[k])]]

\* Layer.get_key_names: the label of every key, None where the layer binds none
get_key_names(l) ==
  [i \in 1..Len(VALID_KEY_NAMES) |->
     IF VALID_KEY_NAMES[i] \in DOMAIN l.key_actions
       THEN l.key_actions[VALID_KEY_NAMES[i]].name ELSE None]

\* dict.get('base', None) and `'base' in d` on the layer table, which is the
\* sequence of its <<key, layer>> entries in definition order
HasKey(table, key) == \E i \in 1..Len(table) : table[i].key = key

Lookup(table, key) ==
  IF HasKey(table, key)
    THEN table[CHOOSE i \in 1..Len(table) : table[i].key = key].layer
    ELSE NoLayer

RECURSIVE ParseEntriesLenient(_, _, _)
\* parse_layers with an entry that raises skipped instead of propagated
ParseEntriesLenient(entries, gen, layers) ==
  IF entries = <<>> THEN Ok(layers)
  ELSE LET e == Head(entries)
           l == from_spec_dict(e.spec, <<gen, e.key>>)
       IN ParseEntriesLenient(Tail(entries), gen,
            IF l.st # "ok" THEN layers
            ELSE Append(layers, [key |-> e.key, layer |-> l.v]))

RECURSIVE ParseEntries(_, _, _)
\* the loop of parse_layers over file_content.items()
ParseEntries(entries, gen, layers) ==
  IF entries = <<>> THEN Ok(layers)
  ELSE LET e == Head(entries)
           l == from_spec_dict(e.spec, <<gen, e.key>>)
       IN IF l.st # "ok" THEN Raised
          ELSE ParseEntries(Tail(entries), gen,
                            Append(layers, [key |-> e.key, layer |-> l.v]))

\* parse_layers: open() and yaml.safe_load may raise, and so may any entry
parse_layers(doc, gen) ==
  IF doc.st # "mapping" THEN Raised
  ELSE ParseEntries(doc.root, gen, <<>>)

\* ------------------------------------------------------- the layer stack
\* set_layers without lines 28-29: base is never put on the stack
NewActiveWithoutBase(layers, gen) == <<create_default_layer(gen)>>

\* set_layers, lines 27-30: the new active stack
NewActive(layers, gen) ==
  IF HasKey(layers, "base")
    THEN <<create_default_layer(gen), Lookup(layers, "base")>>
    ELSE <<create_default_layer(gen)>>

RECURSIVE PopTo(_, _)
\* handle_process_change, lines 112-113
PopTo(new_active, base_layer) ==
  IF Len(new_active) > 0 /\ new_active[Len(new_active)] # base_layer
    THEN PopTo(SubSeq(new_active, 1, Len(new_active) - 1), base_layer)
    ELSE new_active

\* handle_process_change, lines 110-113
Strip(new_active, base_layer) ==
  IF base_layer # NoLayer THEN PopTo(new_active, base_layer) ELSE new_active

\* os.path.basename of a path given as its components
Basename(path) == path[Len(path)]

\* handle_process_change, lines 118-123: the layers to push, one or none
FindLayer(layers, process) ==
  LET hits == {i \in 1..Len(layers) : layers[i].layer.application = process}
  IN IF hits = {} THEN <<>>
     ELSE <<layers[CHOOSE i \in hits : \A j \in hits : i <= j].layer>>

\* handle_process_change, lines 109-125, run without interruption
ProcessChange(active, layers, path) ==
  Strip(active, Lookup(layers, "base")) \o FindLayer(layers, Basename(path))

\* ---------------------------------------------------------- event dispatch
RECURSIVE SearchKey(_, _, _)
\* handle_key_event, lines 65-67: the actions run, searching from index i down
SearchKey(layers, i, key) ==
  IF i = 0 THEN <<>>
  ELSE IF key \in DOMAIN layers[i].key_actions
         THEN <<[layer |-> layers[i].id, action |-> layers[i].key_actions[key]]>>
         ELSE SearchKey(layers, i - 1, key)

RECURSIVE SearchKeyUp(_, _, _)
SearchKeyUp(layers, i, key) ==
  IF i > Len(layers) THEN <<>>
  ELSE IF key \in DOMAIN layers[i].key_actions
         THEN <<[layer |-> layers[i].id, action |-> layers[i].key_actions[key]]>>
         ELSE SearchKeyUp(layers, i + 1, key)

\* handle_key_event without reversed(): the search runs bottom-up
DispatchKeyBottomUp(layers, key) == SearchKeyUp(layers, 1, key)

DispatchKey(layers, key) == SearchKey(layers, Len(layers), key)

RECURSIVE SearchEncoder(_, _, _)
\* handle_encoder_inc / _dec / handle_encoder_button, the search loop: the
\* actions run, searching from index i down; which is the attribute read
SearchEncoder(layers, i, which) ==
  IF i = 0 THEN <<>>
  ELSE IF layers[i][which] # NoAction
         THEN <<[layer |-> layers[i].id, action |-> layers[i][which]]>>
         ELSE SearchEncoder(layers, i - 1, which)

\* one call of handle_encoder_inc or handle_encoder_dec on a stack
EncoderCall(event, layers) ==
  [event |-> event,
   ran |-> SearchEncoder(layers, Len(layers),
             IF event = "inc" THEN "encoder_inc_action" ELSE "encoder_dec_action")]

\* handle_encoder_event, line 87 alone: the difference is never made signed
EncoderDiffUnsigned(val, last_rot) == (val - last_rot) % 256

\* handle_encoder_event, lines 87-88
EncoderDiff(val, last_rot) ==
  LET diff == (val - last_rot) % 256
  IN IF diff > 127 THEN diff - 256 ELSE diff

\* handle_encoder_event, lines 90-95: the calls made by the two loops, in
\* order; the first runs diff times when diff > 0, the second -diff times
\* when diff < 0
EncoderLoops(diff, layers) ==
  [i \in 1..(IF diff > 0 THEN diff ELSE 0) |-> EncoderCall("inc", layers)]
    \o [i \in 1..(IF diff < 0 THEN 0 - diff ELSE 0) |-> EncoderCall("dec", layers)]

\* handle_encoder_event taking a reading of 0 for the one it has not seen
EncoderEventCallsFromZero(val, last_rot, layers) ==
  EncoderLoops(EncoderDiff(val, IF last_rot = -1 THEN 0 ELSE last_rot), layers)

\* handle_encoder_event, lines 85-95; last_rot = -1 is None
EncoderEventCalls(val, last_rot, layers) ==
  IF last_rot # -1 THEN EncoderLoops(EncoderDiff(val, last_rot), layers) ELSE <<>>

\* handle_encoder_button dispatching on every pressed report
EncoderButtonLevel(state, last_state, layers) ==
  IF state
    THEN <<[event |-> "btn",
            ran |-> SearchEncoder(layers, Len(layers), "encoder_btn_action")]>>
    ELSE <<>>

\* handle_encoder_button, lines 100-105
EncoderButtonCalls(state, last_state, layers) ==
  IF state /\ state # last_state
    THEN <<[event |-> "btn",
            ran |-> SearchEncoder(layers, Len(layers), "encoder_btn_action")]>>
    ELSE <<>>

\* __parse_encoder_hid_data taking any report of three bytes
ParseAnyTag(data) ==
  IF Len(data) = 3 THEN <<data[2], data[3] # 0>> ELSE <<>>

\* WindowsHal.__parse_encoder_hid_data: <<rotation, button>>, <<>> for None
parse_encoder_hid_data(data) ==
  IF Len(data) = 3 /\ data[1] = 2 THEN <<data[2], data[3] # 0>> ELSE <<>>

\* ------------------------------------------------------- outbound messages
NonAscii == {"U+00E9"}

\* str.encode('ascii', errors='ignore')
EncodeAscii(s) == SelectSeq(s, LAMBDA c : c \notin NonAscii)

Repeated(c, n) == [i \in 1..n |-> c]

\* s[:n]
Prefix(s, n) == SubSeq(s, 1, IF Len(s) < n THEN Len(s) ELSE n)

\* send_profile_name, lines 50-53
ProfileMessage(name) ==
  LET data == EncodeAscii(Prefix(name, ProfileMsgLen - 1))
  IN [type |-> 3, body |-> data \o Repeated("NUL", ProfileMsgLen - 1 - Len(data))]

\* f'{n:4.4}' and the four blanks of a missing label
Field(n) ==
  IF n = None THEN Repeated(" ", LabelLen)
  ELSE Prefix(n, LabelLen) \o Repeated(" ", LabelLen - Len(Prefix(n, LabelLen)))

RECURSIVE Fields(_)
Fields(key_names) ==
  IF key_names = <<>> THEN <<>>
  ELSE EncodeAscii(Field(Head(key_names))) \o Fields(Tail(key_names))

\* the labels sent in their logical order
KeyNamesMessageLogical(key_names) ==
  LET data == Fields(key_names)
  IN IF Len(key_names) # 12 \/ Len(data) # LabelLen * 12 THEN Raised
     ELSE Ok([type |-> 4, body |-> data])

\* send_key_names, lines 57-71: the message, or the assertion of line 71 raises
KeyNamesMessage(key_names) ==
  LET ordered == SubSeq(key_names, 9, Len(key_names)) \o SubSeq(key_names, 5, 8)
                   \o SubSeq(key_names, 1, 4)
      data == Fields(ordered)
  IN IF Len(ordered) # 12 \/ Len(data) # LabelLen * 12 THEN Raised
     ELSE Ok([type |-> 4, body |-> data])

\* the labels of the topmost layer taken wholesale
OverlayWholesale(key_names, above) ==
  IF above = <<>> THEN key_names ELSE get_key_names(above[Len(above)])

RECURSIVE Overlay(_, _)
\* handle_process_change, lines 134-139
Overlay(key_names, above) ==
  IF above = <<>> THEN key_names
  ELSE LET lkn == get_key_names(Head(above))
       IN Overlay([i \in 1..Len(key_names) |->
                     IF lkn[i] # None THEN lkn[i] ELSE key_names[i]],
                  Tail(above))

\* handle_process_change, lines 133-139
MergedKeyNames(active) == Overlay(get_key_names(active[1]), Tail(active))

\* handle_process_change, lines 129-141: the messages put on the queue
ProfileUpdate(active) ==
  IF active = <<>> THEN <<>>
  ELSE LET m == KeyNamesMessage(MergedKeyNames(active))
       IN <<ProfileMessage(active[Len(active)].name)>>
            \o (IF m.st = "ok" THEN <<m.v>> ELSE <<>>)

\* __hid_send_thread_loop, line 131: an AssertionError is no IOError, it ends
\* the send thread
TypeByteAsserted(msg) == msg.type \in {3, 4}

\* ------------------------------------------------ the inputs of the model
\* Layer files. A document is unreadable (open raises), malformed (safe_load
\* raises), no mapping at its root (items() raises), or a mapping: the
\* sequence of its entries in definition order.
Copy == [hotkey |-> "ctrl+c", name |-> <<"A">>]
Paste == [hotkey |-> "ctrl+v", name |-> <<"B">>]
TypeX == [type |-> "x", name |-> <<"X">>]
Unnamed == [hotkey |-> "ctrl+z"]
Accented == [hotkey |-> "ctrl+e", name |-> <<"U+00E9", "t", "e">>]

BaseSpec == [name |-> <<"B", "a", "s", "e">>, F13 |-> Copy, F14 |-> Paste]
CodeSpec ==
  [name |-> <<"C", "o", "d", "e">>, application |-> "code.exe", F14 |-> TypeX]
Code2Spec ==
  [name |-> <<"C", "o", "d", "e", "2">>, application |-> "code.exe", F13 |-> Paste]
TermSpec ==
  [name |-> <<"T", "e", "r", "m">>, application |-> "term.exe", F15 |-> Unnamed]
TaggedBaseSpec ==
  [name |-> <<"B", "a", "s", "e">>, application |-> "code.exe", F13 |-> Copy]

Mapping(entries) == [st |-> "mapping", root |-> entries]
Entry(key, spec) == [key |-> key, spec |-> spec]

DocFull ==
  Mapping(<<Entry("base", BaseSpec), Entry("code", CodeSpec),
            Entry("code2", Code2Spec), Entry("term", TermSpec)>>)
DocNoBase == Mapping(<<Entry("code", CodeSpec), Entry("term", TermSpec)>>)
DocTaggedBase == Mapping(<<Entry("base", TaggedBaseSpec), Entry("term", TermSpec)>>)
\* a binding that is no mapping is skipped by from_spec_dict
DocScalarAction ==
  Mapping(<<Entry("base", [name |-> <<"B", "a", "s", "e">>,
                           F13 |-> [scalar |-> "ctrl+c"], F14 |-> Paste])>>)
\* a label with a character outside ASCII
DocAccented ==
  Mapping(<<Entry("term", [name |-> <<"T", "e", "r", "m">>,
                           application |-> "term.exe", F16 |-> Accented])>>)
DocUnreadable == [st |-> "unreadable", root |-> <<>>]
DocMalformed == [st |-> "malformed", root |-> <<>>]
DocNoMapping == [st |-> "scalar", root |-> <<>>]
\* the second entry has no name: spec["name"] raises
DocNoName ==
  Mapping(<<Entry("base", BaseSpec), Entry("code", [application |-> "code.exe"])>>)
\* the second entry binds a mapping of no action variant: parse_action raises
DocBadAction ==
  Mapping(<<Entry("base", BaseSpec),
            Entry("code", [name |-> <<"C", "o", "d", "e">>,
                           F13 |-> [hotkeys |-> "ctrl+c"]])>>)

Docs ==
  {DocFull, DocNoBase, DocTaggedBase, DocScalarAction, DocAccented, DocUnreadable,
   DocMalformed, DocNoMapping, DocNoName, DocBadAction}

\* Keys pressed: bound by base and an application layer (F13, F14), by an
\* application layer alone (F15), by the default layer alone (F16)
PressedKeys == {"F13", "F14", "F15", "F16"}

\* Encoder readings: differences of 0, 1, 16, 127, 128, 129 and 255 occur
EncoderReadings == {0, 1, 10, 122, 127, 128, 129, 250, 255}

\* Reports read from the device: encoder reports, and reports of another
\* length or tag
Reports ==
  {<<2, r, b>> : r \in EncoderReadings, b \in {0, 1}}
    \cup {<<2, 10>>, <<1, 10, 1>>, <<2, 10, 1, 0>>}

\* Paths of focused processes, as their components
Paths ==
  {<<"C:", "apps", "code.exe">>, <<"D:", "term.exe">>, <<"C:", "other.exe">>}

\* -------------------------------------------------------------- the state
VARIABLES
  phase,                   \* Macropadd.run: "init", "running", or "dead"
  all_layers,              \* Macropadd.all_layers
  active_layers,           \* Macropadd.active_layers, bottom first
  generation,              \* layer tables built so far
  now,                     \* time.time(), in ticks
  last_trigger_time,       \* LayerFileWatcher._Handler.last_trigger_time
  msg_queue,               \* HalBase.msg_queue
  last_encoder_rot,        \* Macropadd.last_encoder_rot, -1 for None
  last_encoder_btn_state,  \* Macropadd.last_encoder_btn_state
  last,                    \* history: the handler that last ran as a whole, and
                           \* what it did
  watcher,                 \* the watcher thread inside on_modified / set_layers
  focus,                   \* the focus thread inside handle_process_change
  race,                    \* history: the state when both threads were last
                           \* idle, and the calls begun since
  hotkey,                  \* the hotkey thread inside handle_key_event
  hid,                     \* the HID read thread inside the encoder handlers
  stop,                    \* WindowsHal.__hid_thread_stop_event is set
  device,                  \* the macropad is plugged in
  sender,                  \* the thread of __hid_send_thread_loop
  reader,                  \* the thread of __hid_read_thread_loop
  turned,                  \* history: the first reading of the dial, and the
                           \* handle_encoder_inc calls less the
                           \* handle_encoder_dec calls made since, modulo 256
  runner,                  \* the thread inside the run method of an action
  listener                 \* the thread of __global_hotkey_thread_loop

router == <<phase, all_layers, active_layers, generation>>
encoder == <<last_encoder_rot, last_encoder_btn_state>>
dispatch == <<hotkey, hid>>
workers == <<stop, device, sender, reader>>
threads ==
  <<watcher, focus, race, hotkey, hid, stop, device, sender, reader, turned, runner,
    listener>>
vars ==
  <<phase, all_layers, active_layers, generation, now, last_trigger_time,
    msg_queue, last_encoder_rot, last_encoder_btn_state, last, watcher, focus, race,
    hotkey, hid, stop, device, sender, reader, turned, runner, listener>>

\* a thread outside its handler
WatcherIdle == [pc |-> "idle", layers |-> <<>>, gen |-> 0]
FocusIdle == [pc |-> "idle", path |-> <<>>, new_active |-> <<>>, key_names |-> <<>>]
\* layers is the handler's copy of the stack and i the index the loop is at;
\* searched (the ids of the layers the loop has examined) and changed (the
\* stack was another one than the copy when a layer was examined) are history
HotkeyIdle ==
  [pc |-> "idle", key |-> "", layers |-> <<>>, i |-> 0, searched |-> <<>>,
   changed |-> FALSE]
HidIdle ==
  [pc |-> "idle", stage |-> "", val |-> 0, state |-> FALSE, pending |-> <<>>,
   event |-> "", layers |-> <<>>, i |-> 0, searched |-> <<>>, changed |-> FALSE]

Ids(layers) == [i \in 1..Len(layers) |-> layers[i].id]

\* A device worker at the top of its loop. pc is its position, open that it
\* holds an open device, msg the message it took from the queue (<<>> for
\* none); faulted (an I/O fault occurred on the device it holds) and waits
\* (the waits it began after the stop flag was set) are history
WorkerStarted ==
  [pc |-> "outer", open |-> FALSE, msg |-> <<>>, faulted |-> FALSE, waits |-> 0]

\* the thread that runs actions, outside any run method: action is the action
\* whose run was called, stack the frames of the run methods entered, a the
\* action of a frame and i the iterations its loop has begun, and log (the
\* sleeps, calls and returns so far) is history
RunnerIdle == [pc |-> "idle", action |-> NoAction, stack |-> <<>>, log |-> <<>>]

\* the hotkey thread before it registers the hotkeys: registered is the set
\* of keys registered as global hotkeys, messages the WM_HOTKEY messages
\* posted to the thread, key the key of the message being handled
ListenerStarted ==
  [pc |-> "start", registered |-> {}, messages |-> <<>>, key |-> ""]

\* the history of the dial after a report of the reading val that made calls
Turned(val, calls) ==
  LET incs == Len(SelectSeq(calls, LAMBDA c : c.event = "inc"))
      decs == Len(SelectSeq(calls, LAMBDA c : c.event = "dec"))
  IN [first |-> IF turned.first = -1 THEN val ELSE turned.first,
      net |-> (turned.net + incs - decs) % 256]

\* a history record: the handler, its input, the stack and the encoder
\* reading before it, and the actions or calls it ran
Did(op, input, before, ran) ==
  [op |-> op, input |-> input, before |-> Ids(before), ran |-> ran,
   prev_rot |-> last_encoder_rot]

\* Macropadd.__init__ and LayerFileWatcher._Handler.__init__; the clock is
\* long past the epoch, so the first file event is never debounced
Init ==
  /\ phase = "init"
  /\ all_layers = <<>>
  /\ active_layers = <<>>
  /\ generation = 0
  /\ now = DebounceTicks
  /\ last_trigger_time = 0
  /\ msg_queue = <<>>
  /\ last_encoder_rot = -1
  /\ last_encoder_btn_state = FALSE
  /\ last = Did("init", <<>>, <<>>, <<>>)
  /\ watcher = WatcherIdle
  /\ focus = FocusIdle
  /\ race = [all_layers |-> <<>>, active_layers |-> <<>>, calls |-> <<>>]
  /\ hotkey = HotkeyIdle
  /\ hid = HidIdle
  /\ stop = FALSE
  /\ device = FALSE
  /\ sender = WorkerStarted
  /\ reader = WorkerStarted
  /\ turned = [first |-> -1, net |-> 0]
  /\ runner = RunnerIdle
  /\ listener = ListenerStarted

\* set_layers, lines 26-30
SetLayers(layers) ==
  /\ all_layers' = layers
  /\ active_layers' = NewActive(layers, generation)
  /\ generation' = generation + 1

\* Macropadd.run, line 34: a file that does not parse ends the program
Startup(doc) ==
  /\ phase = "init"
  /\ LET parsed == parse_layers(doc, generation)
     IN IF parsed.st = "ok"
          THEN /\ SetLayers(parsed.v)
               /\ phase' = "running"
               /\ last' = Did("startup", <<doc.st>>, active_layers, <<>>)
          ELSE /\ phase' = "dead"
               /\ last' = Did("startup_failed", <<doc.st>>, active_layers, <<>>)
               /\ UNCHANGED <<all_layers, active_layers, generation>>
  /\ UNCHANGED <<now, last_trigger_time, msg_queue, encoder, threads>>

Tick ==
  /\ now < MaxTime
  /\ now' = now + 1
  /\ UNCHANGED <<router, last_trigger_time, msg_queue, encoder, last, threads>>

\* on_modified with a window that every event, ignored or not, starts anew
OnModifiedSliding(doc) ==
  /\ phase = "running"
  /\ generation <= MaxReloads
  /\ last_trigger_time' = now
  /\ IF now - last_trigger_time < DebounceTicks
       THEN /\ last' = Did("debounced", <<doc.st>>, active_layers, <<>>)
            /\ UNCHANGED <<all_layers, active_layers, generation>>
       ELSE LET parsed == parse_layers(doc, generation)
            IN IF parsed.st = "ok"
                 THEN /\ SetLayers(parsed.v)
                      /\ last' = Did("reload", <<doc.st>>, active_layers, <<>>)
                 ELSE /\ last' = Did("reload_failed", <<doc.st>>, active_layers, <<>>)
                      /\ UNCHANGED <<all_layers, active_layers, generation>>
  /\ UNCHANGED <<phase, now, msg_queue, encoder, threads>>

\* LayerFileWatcher._Handler.on_modified with cb = Macropadd.set_layers
OnModified(doc) ==
  /\ phase = "running"
  /\ generation <= MaxReloads
  /\ IF now - last_trigger_time < DebounceTicks
       THEN /\ last' = Did("debounced", <<doc.st>>, active_layers, <<>>)
            /\ UNCHANGED <<all_layers, active_layers, generation, last_trigger_time>>
       ELSE /\ last_trigger_time' = now
            /\ LET parsed == parse_layers(doc, generation)
               IN IF parsed.st = "ok"
                    THEN /\ SetLayers(parsed.v)
                         /\ last' = Did("reload", <<doc.st>>, active_layers, <<>>)
                    ELSE /\ last' = Did("reload_failed", <<doc.st>>, active_layers, <<>>)
                         /\ UNCHANGED <<all_layers, active_layers, generation>>
  /\ UNCHANGED <<phase, now, msg_queue, encoder, threads>>

\* Macropadd.handle_process_change, followed while the queue holds no more
\* than backlog messages
HandleProcessChange(path, backlog) ==
  /\ phase = "running"
  /\ LET new_active == ProcessChange(active_layers, all_layers, path)
     IN /\ Len(new_active) <= MaxStack
        /\ Len(msg_queue) + 2 <= backlog
        /\ active_layers' = new_active
        /\ msg_queue' = msg_queue \o ProfileUpdate(new_active)
        /\ last' = Did("focus", path, active_layers, <<>>)
  /\ UNCHANGED <<phase, all_layers, generation, now, last_trigger_time, encoder, threads>>

FocusChanged(path) == HandleProcessChange(path, MaxQueue)

\* Macropadd.handle_key_event, called by the hotkey thread for F13..F24
KeyEvent(key) ==
  /\ phase = "running"
  /\ last' = Did("key", <<key>>, active_layers, DispatchKey(active_layers, key))
  /\ UNCHANGED <<router, now, last_trigger_time, msg_queue, encoder, threads>>

\* __hid_send_thread_loop, lines 123-135: take one message and write it
HidSend ==
  /\ msg_queue # <<>>
  /\ sender.pc # "crashed"
  /\ msg_queue' = Tail(msg_queue)
  /\ sender' = IF TypeByteAsserted(Head(msg_queue)) THEN sender
                ELSE [sender EXCEPT !.pc = "crashed"]
  /\ UNCHANGED <<router, now, last_trigger_time, encoder, last, watcher, focus, race,
                 hotkey, hid, stop, device, reader, turned, runner, listener>>

\* __hid_read_thread_loop, lines 167-174, with the handlers of Macropadd.run:
\* handle_encoder_event and then handle_encoder_button
Handle(data) ==
  LET parsed == parse_encoder_hid_data(data)
  IN IF parsed # <<>> /\ phase = "running"
       THEN LET rotated == EncoderEventCalls(parsed[1], last_encoder_rot, active_layers)
            IN /\ last' = Did("report", data, active_layers,
                     rotated \o EncoderButtonCalls(parsed[2], last_encoder_btn_state,
                                                  active_layers))
               /\ last_encoder_rot' = parsed[1]
               /\ last_encoder_btn_state' = parsed[2]
       ELSE /\ last' = Did("report", data, active_layers, <<>>)
            /\ UNCHANGED encoder

\* a report read while the device is connected
HidReport(data) ==
  /\ phase # "dead"
  /\ Handle(data)
  /\ UNCHANGED <<router, now, last_trigger_time, msg_queue, threads>>

Next ==
  \/ \E doc \in Docs : Startup(doc)
  \/ Tick
  \/ \E doc \in Docs : OnModified(doc)
  \/ \E path \in Paths : FocusChanged(path)
  \/ \E key \in PressedKeys : KeyEvent(key)
  \/ HidSend

Spec == Init /\ [][Next]_vars

\* The device input alone: startup and the reports of the HID read thread
NextEnc ==
  \/ \E doc \in Docs : Startup(doc)
  \/ \E data \in Reports : HidReport(data)

SpecEnc == Init /\ [][NextEnc]_vars

\* The dial alone, with the history of its turns: readings a step, half a
\* turn and a wrap apart
DialReadings == {0, 1, 127, 128, 200, 255}
DialDocs == {DocFull, DocNoBase}

\* a report read while the device is connected, and its calls counted
DialReport(data) ==
  /\ phase = "running"
  /\ Handle(data)
  /\ turned' = Turned(data[2], last'.ran)
  /\ UNCHANGED <<router, now, last_trigger_time, msg_queue, watcher, focus, race,
                 hotkey, hid, workers, runner, listener>>

NextDial ==
  \/ \E doc \in DialDocs : Startup(doc)
  \/ \E r \in DialReadings, b \in {0, 1} : DialReport(<<2, r, b>>)

SpecDial == Init /\ [][NextDial]_vars

\* No device is connected: the send thread takes nothing from the queue while
\* the focus keeps changing
NextOffline ==
  \/ \E doc \in Docs : Startup(doc)
  \/ \E path \in Paths : HandleProcessChange(path, MaxBacklog)

SpecOffline == Init /\ [][NextOffline]_vars

\* ---------------------------------------------- the handlers, step by step
\* The watcher thread and the focus thread run their handlers concurrently;
\* a step is one read or one write of Macropadd.all_layers or
\* Macropadd.active_layers together with the local computation before it.

\* no race on record
NoRace == [all_layers |-> <<>>, active_layers |-> <<>>, calls |-> <<>>]

\* A handler begins: the calls begun since both threads were last idle are
\* kept while they are one reload and one focus change, and dropped otherwise
Begun(call) ==
  IF watcher.pc = "idle" /\ focus.pc = "idle"
    THEN [all_layers |-> all_layers, active_layers |-> active_layers,
          calls |-> <<call>>]
    ELSE IF Len(race.calls) = 1 /\ race.calls[1].op # call.op
           THEN [race EXCEPT !.calls = Append(@, call)]
           ELSE NoRace

\* on_modified, lines 122-128: up to the call of set_layers
WatcherModified(doc) ==
  /\ phase = "running"
  /\ watcher.pc = "idle"
  /\ generation <= MaxReloads
  /\ IF now - last_trigger_time < DebounceTicks
       THEN UNCHANGED <<generation, last_trigger_time, watcher, race>>
       ELSE /\ last_trigger_time' = now
            /\ LET parsed == parse_layers(doc, generation)
               IN IF parsed.st = "ok"
                    THEN /\ watcher' = [pc |-> "set_table", layers |-> parsed.v,
                                        gen |-> generation]
                         /\ generation' = generation + 1
                         /\ race' = Begun([op |-> "reload", layers |-> parsed.v,
                                           gen |-> generation])
                    ELSE UNCHANGED <<generation, watcher, race>>
  /\ UNCHANGED <<phase, all_layers, active_layers, now, msg_queue, encoder, last, dispatch, workers, turned, runner, listener,
                 focus>>

\* set_layers, line 26
WatcherSetTable ==
  /\ watcher.pc = "set_table"
  /\ all_layers' = watcher.layers
  /\ watcher' = [watcher EXCEPT !.pc = "set_active"]
  /\ UNCHANGED <<phase, active_layers, generation, now, last_trigger_time,
                 msg_queue, encoder, last, dispatch, workers, turned, runner, listener, focus, race>>

\* set_layers, lines 27-30
WatcherSetActive ==
  /\ watcher.pc = "set_active"
  /\ active_layers' = NewActive(all_layers, watcher.gen)
  /\ watcher' = WatcherIdle
  /\ UNCHANGED <<phase, all_layers, generation, now, last_trigger_time,
                 msg_queue, encoder, last, dispatch, workers, turned, runner, listener, focus, race>>

\* handle_process_change, line 109
FocusCopy(path) ==
  /\ phase = "running"
  /\ focus.pc = "idle"
  /\ Len(active_layers) < MaxStack
  /\ Len(msg_queue) + 2 <= MaxQueue
  /\ focus' = [FocusIdle EXCEPT !.pc = "strip", !.path = path,
                                !.new_active = active_layers]
  /\ race' = Begun([op |-> "focus", path |-> path])
  /\ UNCHANGED <<router, now, last_trigger_time, msg_queue, encoder, last, dispatch, workers, turned, runner, listener, watcher>>

\* handle_process_change, lines 110-113
FocusStrip ==
  /\ focus.pc = "strip"
  /\ focus' = [focus EXCEPT !.pc = "scan",
                            !.new_active = Strip(@, Lookup(all_layers, "base"))]
  /\ UNCHANGED <<router, now, last_trigger_time, msg_queue, encoder, last, dispatch, workers, turned, runner, listener, watcher,
                 race>>

\* handle_process_change, lines 116-123
FocusScan ==
  /\ focus.pc = "scan"
  /\ focus' = [focus EXCEPT !.pc = "store",
                            !.new_active = @ \o FindLayer(all_layers, Basename(focus.path))]
  /\ UNCHANGED <<router, now, last_trigger_time, msg_queue, encoder, last, dispatch, workers, turned, runner, listener, watcher,
                 race>>

\* handle_process_change, line 125
FocusStore ==
  /\ focus.pc = "store"
  /\ active_layers' = focus.new_active
  /\ focus' = [focus EXCEPT !.pc = "profile"]
  /\ UNCHANGED <<phase, all_layers, generation, now, last_trigger_time, msg_queue,
                 encoder, last, dispatch, workers, turned, runner, listener, watcher, race>>

\* handle_process_change, lines 129-131
FocusProfile ==
  /\ focus.pc = "profile"
  /\ IF active_layers = <<>>
       THEN /\ focus' = FocusIdle
            /\ UNCHANGED msg_queue
       ELSE /\ msg_queue' =
                 Append(msg_queue, ProfileMessage(active_layers[Len(active_layers)].name))
            /\ focus' = [focus EXCEPT !.pc = "bottom"]
  /\ UNCHANGED <<router, now, last_trigger_time, encoder, last, dispatch, workers, turned, runner, listener, watcher, race>>

\* handle_process_change, line 133
FocusBottom ==
  /\ focus.pc = "bottom"
  /\ focus' = [focus EXCEPT !.pc = "overlay",
                            !.key_names = get_key_names(active_layers[1])]
  /\ UNCHANGED <<router, now, last_trigger_time, msg_queue, encoder, last, dispatch, workers, turned, runner, listener, watcher,
                 race>>

\* handle_process_change, lines 134-141
FocusOverlay ==
  /\ focus.pc = "overlay"
  /\ LET m == KeyNamesMessage(Overlay(focus.key_names, Tail(active_layers)))
     IN msg_queue' = msg_queue \o (IF m.st = "ok" THEN <<m.v>> ELSE <<>>)
  /\ focus' = FocusIdle
  /\ UNCHANGED <<router, now, last_trigger_time, encoder, last, dispatch, workers, turned, runner, listener, watcher, race>>

NextConc ==
  \/ \E doc \in Docs : Startup(doc)
  \/ \E doc \in Docs : WatcherModified(doc)
  \/ WatcherSetTable
  \/ WatcherSetActive
  \/ \E path \in Paths : FocusCopy(path)
  \/ FocusStrip
  \/ FocusScan
  \/ FocusStore
  \/ FocusProfile
  \/ FocusBottom
  \/ FocusOverlay
  \/ HidSend

SpecConc == Init /\ [][NextConc]_vars

\* ------------------------------------------- event dispatch, step by step
\* The hotkey thread and the HID read thread run their handlers while the
\* watcher and the focus listener replace the stack; a step is the copy of
\* the stack or one iteration of the search loop. The send thread is left
\* out, so the focus changes are those the queue has room for.

\* the search loop reading self.active_layers afresh at every iteration
DispatchLayerLive(layers, active, i) ==
  IF i <= Len(active) THEN active[i] ELSE layers[i]

\* handle_key_event, line 65, and the same line of the encoder handlers: the
\* loop iterates the copy
DispatchLayer(layers, active, i) == layers[i]

\* Layer.run_action_for_encoder_inc / _dec / _btn: the attribute read
EncoderAttribute(event) ==
  CASE event = "inc" -> "encoder_inc_action"
    [] event = "dec" -> "encoder_dec_action"
    [] event = "btn" -> "encoder_btn_action"

\* The inputs while the stack is being replaced: the layer files that load,
\* with and without a base layer; a key bound by the base and an application
\* layer and a key bound by the default layer alone; dial reports that turn
\* the dial two steps either way and press the button
DispatchDocs == {DocFull, DocNoBase}
DispatchKeys == {"F14", "F16"}
DialReports == {<<2, 0, 0>>, <<2, 2, 1>>}

\* handle_key_event, line 64
KeySnapshot(key) ==
  /\ phase = "running"
  /\ hotkey.pc = "idle"
  /\ hotkey' = [HotkeyIdle EXCEPT
                  !.pc = IF active_layers = <<>> THEN "return" ELSE "search",
                  !.key = key, !.layers = active_layers, !.i = Len(active_layers)]
  /\ UNCHANGED <<router, now, last_trigger_time, msg_queue, encoder, last,
                 watcher, focus, race, hid, workers, turned, runner, listener>>

\* handle_key_event, lines 65-67: one iteration; the action of a layer that
\* binds the key runs before the handler returns
KeySearch ==
  /\ hotkey.pc = "search"
  /\ LET l == DispatchLayer(hotkey.layers, active_layers, hotkey.i)
     IN hotkey' = [hotkey EXCEPT
                     !.searched = Append(@, l.id),
                     !.changed = @ \/ active_layers # hotkey.layers,
                     !.i = @ - 1,
                     !.pc = IF hotkey.key \in DOMAIN l.key_actions \/ hotkey.i = 1
                              THEN "return" ELSE "search"]
  /\ UNCHANGED <<router, now, last_trigger_time, msg_queue, encoder, last,
                 watcher, focus, race, hid, workers, turned, runner, listener>>

\* handle_key_event, lines 67-68
KeyReturn ==
  /\ hotkey.pc = "return"
  /\ hotkey' = HotkeyIdle
  /\ UNCHANGED <<router, now, last_trigger_time, msg_queue, encoder, last,
                 watcher, focus, race, hid, workers, turned, runner, listener>>

\* __hid_read_thread_loop, lines 167-172, and handle_encoder_event, lines
\* 85-88: the calls the two loops will make
HidRead(data) ==
  /\ phase = "running"
  /\ hid.pc = "idle"
  /\ LET parsed == parse_encoder_hid_data(data)
         calls == EncoderEventCalls(parsed[1], last_encoder_rot, <<>>)
     IN /\ parsed # <<>>
        /\ hid' = [HidIdle EXCEPT
                     !.pc = "calls", !.stage = "rot", !.val = parsed[1],
                     !.state = parsed[2],
                     !.pending = [k \in 1..Len(calls) |-> calls[k].event]]
  /\ UNCHANGED <<router, now, last_trigger_time, msg_queue, encoder, last,
                 watcher, focus, race, hotkey, workers, turned, runner, listener>>

\* handle_encoder_inc / _dec, line 71 / 78, and handle_encoder_button, line 101
EncoderSnapshot ==
  /\ hid.pc = "calls"
  /\ hid.pending # <<>>
  /\ hid' = [hid EXCEPT
               !.pc = IF active_layers = <<>> THEN "calls" ELSE "search",
               !.event = Head(hid.pending), !.pending = Tail(@),
               !.layers = active_layers, !.i = Len(active_layers),
               !.searched = <<>>, !.changed = FALSE]
  /\ UNCHANGED <<router, now, last_trigger_time, msg_queue, encoder, last,
                 watcher, focus, race, hotkey, workers, turned, runner, listener>>

\* handle_encoder_inc / _dec, lines 72-74 / 79-81, and handle_encoder_button,
\* lines 102-104: one iteration
EncoderSearch ==
  /\ hid.pc = "search"
  /\ LET l == DispatchLayer(hid.layers, active_layers, hid.i)
     IN hid' = [hid EXCEPT
                  !.searched = Append(@, l.id),
                  !.changed = @ \/ active_layers # hid.layers,
                  !.i = @ - 1,
                  !.pc = IF l[EncoderAttribute(hid.event)] # NoAction \/ hid.i = 1
                           THEN "calls" ELSE "search"]
  /\ UNCHANGED <<router, now, last_trigger_time, msg_queue, encoder, last,
                 watcher, focus, race, hotkey, workers, turned, runner, listener>>

\* handle_encoder_event, line 97, then handle_encoder_button, line 100
HidRotated ==
  /\ hid.pc = "calls"
  /\ hid.stage = "rot"
  /\ hid.pending = <<>>
  /\ last_encoder_rot' = hid.val
  /\ hid' = [hid EXCEPT
               !.stage = "btn",
               !.pending = IF hid.state /\ hid.state # last_encoder_btn_state
                             THEN <<"btn">> ELSE <<>>]
  /\ UNCHANGED <<router, now, last_trigger_time, msg_queue,
                 last_encoder_btn_state, last, watcher, focus, race, hotkey,
                 workers, turned, runner, listener>>

\* handle_encoder_button, line 106
HidButtonDone ==
  /\ hid.pc = "calls"
  /\ hid.stage = "btn"
  /\ hid.pending = <<>>
  /\ last_encoder_btn_state' = hid.state
  /\ hid' = HidIdle
  /\ UNCHANGED <<router, now, last_trigger_time, msg_queue, last_encoder_rot,
                 last, watcher, focus, race, hotkey, workers, turned, runner, listener>>

NextDispatch ==
  \/ \E doc \in DispatchDocs : Startup(doc)
  \/ \E doc \in DispatchDocs : OnModified(doc)
  \/ \E path \in Paths : FocusChanged(path)
  \/ \E key \in DispatchKeys : KeySnapshot(key)
  \/ KeySearch
  \/ KeyReturn
  \/ \E data \in DialReports : HidRead(data)
  \/ EncoderSnapshot
  \/ EncoderSearch
  \/ HidRotated
  \/ HidButtonDone

SpecDispatch == Init /\ [][NextDispatch]_vars


\* ------------------------------------------------------ the device workers
\* The send thread and the read thread of WindowsHal, step by step: a step is
\* one test of the stop flag, one wait or one call of the hid library. The
\* library is not among the sources; a call on a device that is unplugged
\* fails the way hidapi fails: open_path and read raise IOError, write
\* returns -1 or raises IOError.

program ==
  <<router, now, last_trigger_time, encoder, last, watcher, focus, race, hotkey, hid,
    turned, runner, listener>>

\* a wait begins: it is counted once the stop flag is set
Waited(w) == IF stop /\ w.waits < 2 THEN w.waits + 1 ELSE w.waits

\* the inner loop of a worker going round whatever the stop flag says
InnerLoopDeaf(flag) == "work"

\* lines 121 and 167: the test of the inner loop
InnerLoop(flag) == IF flag THEN "close" ELSE "work"

\* The traffic while the workers are followed: one layer file, the focus on
\* one application, one report of the dial
HalDocs == {DocFull}
HalPaths == {<<"D:", "term.exe">>}
HalReports == {<<2, 1, 1>>}

\* what dev.write does
WriteOutcomes == IF device THEN {"written"} ELSE {"failed", "raised"}

\* WindowsHal.close, called from the finally of Macropadd.run
Close ==
  /\ phase = "running"
  /\ ~stop
  /\ stop' = TRUE
  /\ UNCHANGED <<program, msg_queue, device, sender, reader>>

\* the macropad is plugged in
Plug ==
  /\ ~device
  /\ device' = TRUE
  /\ UNCHANGED <<program, msg_queue, stop, sender, reader>>

\* the macropad is unplugged
Unplug ==
  /\ device
  /\ device' = FALSE
  /\ UNCHANGED <<program, msg_queue, stop, sender, reader>>

\* __hid_send_thread_loop, line 102
SenderLoop ==
  /\ sender.pc = "outer"
  /\ sender' = [sender EXCEPT !.pc = IF stop THEN "exited" ELSE "discover"]
  /\ UNCHANGED <<program, msg_queue, stop, device, reader>>

\* __hid_send_thread_loop, lines 105-110: no device found is a sleep of 1 s
SenderDiscover ==
  /\ sender.pc = "discover"
  /\ sender' = IF device THEN [sender EXCEPT !.pc = "open"]
                         ELSE [sender EXCEPT !.pc = "outer", !.waits = Waited(sender)]
  /\ UNCHANGED <<program, msg_queue, stop, device, reader>>

\* __hid_send_thread_loop, lines 113-120; an IOError goes to line 139
SenderOpen ==
  /\ sender.pc = "open"
  /\ sender' = IF device THEN [sender EXCEPT !.pc = "inner", !.open = TRUE]
                         ELSE [sender EXCEPT !.pc = "outer"]
  /\ UNCHANGED <<program, msg_queue, stop, device, reader>>

\* __hid_send_thread_loop, line 121
SenderInner ==
  /\ sender.pc = "inner"
  /\ sender' = [sender EXCEPT
                  !.pc = IF InnerLoop(stop) = "close" THEN "close" ELSE "get"]
  /\ UNCHANGED <<program, msg_queue, stop, device, reader>>

\* __hid_send_thread_loop, lines 122-125: a wait of at most 1 s
SenderGet ==
  /\ sender.pc = "get"
  /\ IF msg_queue = <<>>
       THEN /\ sender' = [sender EXCEPT !.pc = "inner", !.waits = Waited(sender)]
            /\ UNCHANGED msg_queue
       ELSE /\ sender' = [sender EXCEPT !.pc = "write", !.msg = Head(msg_queue),
                                        !.waits = Waited(sender)]
            /\ msg_queue' = Tail(msg_queue)
  /\ UNCHANGED <<program, stop, device, reader>>

\* __hid_send_thread_loop, lines 127-136: the result of write is only logged
SenderWrite(outcome) ==
  /\ sender.pc = "write"
  /\ outcome \in WriteOutcomes
  /\ sender' = [sender EXCEPT
                  !.msg = <<>>,
                  !.faulted = @ \/ outcome # "written",
                  !.open = @ /\ TypeByteAsserted(sender.msg),
                  !.pc = IF ~TypeByteAsserted(sender.msg) THEN "crashed"
                         ELSE IF outcome = "raised" THEN "close" ELSE "inner"]
  /\ UNCHANGED <<program, msg_queue, stop, device, reader>>

\* __hid_send_thread_loop, lines 137-140
SenderClose ==
  /\ sender.pc = "close"
  /\ sender' = [sender EXCEPT !.pc = "outer", !.open = FALSE, !.faulted = FALSE]
  /\ UNCHANGED <<program, msg_queue, stop, device, reader>>

\* __hid_read_thread_loop, line 145
ReaderLoop ==
  /\ reader.pc = "outer"
  /\ reader' = [reader EXCEPT !.pc = IF stop THEN "exited" ELSE "discover"]
  /\ UNCHANGED <<program, msg_queue, stop, device, sender>>

\* __hid_read_thread_loop, lines 148-154
ReaderDiscover ==
  /\ reader.pc = "discover"
  /\ reader' = IF device THEN [reader EXCEPT !.pc = "open"]
                         ELSE [reader EXCEPT !.pc = "outer", !.waits = Waited(reader)]
  /\ UNCHANGED <<program, msg_queue, stop, device, sender>>

\* __hid_read_thread_loop, lines 157-164; an IOError goes to line 180
ReaderOpen ==
  /\ reader.pc = "open"
  /\ reader' = IF device THEN [reader EXCEPT !.pc = "inner", !.open = TRUE]
                         ELSE [reader EXCEPT !.pc = "outer"]
  /\ UNCHANGED <<program, msg_queue, stop, device, sender>>

\* __hid_read_thread_loop, line 167
ReaderInner ==
  /\ reader.pc = "inner"
  /\ reader' = [reader EXCEPT
                  !.pc = IF InnerLoop(stop) = "close" THEN "close" ELSE "read"]
  /\ UNCHANGED <<program, msg_queue, stop, device, sender>>

\* __hid_read_thread_loop, lines 168-174: a report is read and handled
ReaderRead(data) ==
  /\ reader.pc = "read"
  /\ device
  /\ Handle(data)
  /\ reader' = [reader EXCEPT !.pc = "inner", !.waits = Waited(reader)]
  /\ UNCHANGED <<router, now, last_trigger_time, watcher, focus, race, hotkey, hid,
                 msg_queue, stop, device, sender, turned, runner, listener>>

\* __hid_read_thread_loop, lines 168, 175-176: nothing to read is a sleep of
\* 1 ms; on an unplugged device read raises IOError
ReaderPoll ==
  /\ reader.pc = "read"
  /\ reader' = IF device
                 THEN [reader EXCEPT !.pc = "inner", !.waits = Waited(reader)]
                 ELSE [reader EXCEPT !.pc = "close", !.faulted = TRUE,
                                     !.waits = Waited(reader)]
  /\ UNCHANGED <<program, msg_queue, stop, device, sender>>

\* __hid_read_thread_loop, lines 177-181
ReaderClose ==
  /\ reader.pc = "close"
  /\ reader' = [reader EXCEPT !.pc = "outer", !.open = FALSE, !.faulted = FALSE]
  /\ UNCHANGED <<program, msg_queue, stop, device, sender>>

SenderNext ==
  \/ SenderLoop
  \/ SenderDiscover
  \/ SenderOpen
  \/ SenderInner
  \/ SenderGet
  \/ \E outcome \in {"written", "failed", "raised"} : SenderWrite(outcome)
  \/ SenderClose

ReaderNext ==
  \/ ReaderLoop
  \/ ReaderDiscover
  \/ ReaderOpen
  \/ ReaderInner
  \/ \E data \in HalReports : ReaderRead(data)
  \/ ReaderPoll
  \/ ReaderClose

NextHal ==
  \/ \E doc \in HalDocs : Startup(doc)
  \/ \E path \in HalPaths : FocusChanged(path)
  \/ Close
  \/ Plug
  \/ Unplug
  \/ SenderNext
  \/ ReaderNext

SpecHal == Init /\ [][NextHal]_vars

\* Both worker threads are scheduled again and again, and each of their
\* waits ends: the sleeps, the queue wait of 1 s and the non-blocking read
SpecHalFair == SpecHal /\ WF_vars(SenderNext) /\ WF_vars(ReaderNext)

\* ------------------------------------------------- the outbound messages
\* send_profile_name and send_key_names called with any name and any labels,
\* and the send thread taking the messages from the queue.
\* Names: empty, short, of 18 and of 19 characters, and with a character
\* outside ASCII among the first 18
ProfileNames ==
  {<<>>, <<"T", "e", "r", "m">>, Repeated("a", 18), Repeated("a", 18) \o <<"b">>,
   <<"U+00E9", "t", "e">>, <<"a", "U+00E9">> \o Repeated("b", 18)}

\* Lists of 12 labels: all absent; all distinct; absent, empty, short and
\* over-long labels; a character outside ASCII past the fourth, and one
\* among the first four; and a list of 11 labels
AllAbsent == [i \in 1..12 |-> None]
KeyLabels == [i \in 1..12 |-> KeyChars[VALID_KEY_NAMES[i]]]
MixedLabels ==
  [i \in 1..12 |->
     IF i = 1 THEN <<"P", "a", "s", "t", "e">>
     ELSE IF i = 6 THEN <<>>
     ELSE IF i = 12 THEN <<"A">>
     ELSE None]
LabelLists ==
  {AllAbsent, KeyLabels, MixedLabels,
   [AllAbsent EXCEPT ![9] = <<"c", "a", "f", "e", "U+00E9">>],
   [AllAbsent EXCEPT ![3] = <<"U+00E9", "t", "e">>],
   [i \in 1..11 |-> None]}

\* WindowsHal.send_profile_name
SendProfileName(name) ==
  /\ Len(msg_queue) < MaxQueue
  /\ msg_queue' = Append(msg_queue, ProfileMessage(name))
  /\ last' = Did("send_profile_name", name, active_layers, <<>>)
  /\ UNCHANGED <<router, now, last_trigger_time, encoder, threads>>

\* WindowsHal.send_key_names
SendKeyNames(key_names) ==
  /\ Len(msg_queue) < MaxQueue
  /\ LET m == KeyNamesMessage(key_names)
     IN msg_queue' = IF m.st = "ok" THEN Append(msg_queue, m.v) ELSE msg_queue
  /\ last' = Did("send_key_names", key_names, active_layers, <<>>)
  /\ UNCHANGED <<router, now, last_trigger_time, encoder, threads>>

NextSend ==
  \/ \E name \in ProfileNames : SendProfileName(name)
  \/ \E key_names \in LabelLists : SendKeyNames(key_names)
  \/ HidSend

SpecSend == Init /\ [][NextSend]_vars

\* ------------------------------------------------------------ the actions
\* parse_action applied to a record, and the run method of the action it
\* built followed step by step: a step is one sleep, one call of run or one
\* return from it.
\* Records with the fields of any of the variants: every set of the fields
\* hotkey, type, activateWindow, sequence, repeat and name, the sequence
\* well-formed, no mapping, or without steps, the repeat well-formed or
\* without its action
Launch == [activateWindow |-> "code.exe", name |-> <<"L">>]
SeqGood == [steps |-> <<Copy, TypeX>>, delayMs |-> 50]
SeqEmpty == [steps |-> <<>>]
SeqBad == [scalar |-> "x"]
RepGood == [action |-> Copy, count |-> 2, delayMs |-> 0]
RepBad == [count |-> 2]
FieldChoices ==
  [hotkey : {"ctrl+c"}, type : {"x"}, activateWindow : {"code.exe"},
   sequence : {SeqGood, SeqEmpty, SeqBad}, repeat : {RepGood, RepBad},
   name : {<<"N">>}]
MixedSpecs ==
  {[k \in S |-> v[k]] :
     S \in SUBSET {"hotkey", "type", "activateWindow", "sequence", "repeat", "name"},
     v \in FieldChoices}

\* Records of one variant: a value that is no mapping; sequences of the same
\* step twice, of a sequence, a repeat and a step, with a step that is no
\* mapping and with a step of no variant; repeats of count 0, 3 and none, of
\* a sequence, of a repeat, and of a value that is no mapping
RepThrice == [repeat |-> [action |-> TypeX, count |-> 3, delayMs |-> 50]]
NestedSpecs ==
  {[scalar |-> "ctrl+c"],
   [sequence |-> [steps |-> <<Copy, Copy>>, delayMs |-> 0]],
   [sequence |-> [steps |-> <<[sequence |-> SeqGood], [repeat |-> RepGood], Launch>>],
    name |-> <<"S">>],
   [sequence |-> [steps |-> <<Copy, [scalar |-> "x"]>>]],
   [sequence |-> [steps |-> <<[hotkeys |-> "ctrl+c"]>>]],
   [repeat |-> [action |-> Copy, count |-> 0]],
   [repeat |-> [action |-> Copy]],
   RepThrice,
   [repeat |-> [action |-> [sequence |-> SeqGood], count |-> 2]],
   [repeat |-> [action |-> RepThrice, count |-> 2, delayMs |-> 0]],
   [repeat |-> [action |-> [scalar |-> "x"], count |-> 1]]}

ActionSpecs == MixedSpecs \cup NestedSpecs

\* a frame of a run method that has begun no iteration of its loop
Frame(a) == [a |-> a, i |-> 0, pc |-> "loop"]

\* an entry of the log: a sleep of ms milliseconds, or the call of the run
\* method of a or the return from it, at a depth of the stack
Event(ev, depth, a, ms) == [ev |-> ev, depth |-> depth, a |-> a, ms |-> ms]

IsLeaf(a) == a.kind \in {"Hotkey", "Type", "Activate"}

\* a repeat whose loop runs its body before it tests the count
RepeatRangeDoWhile(a) == IF a.count < 1 THEN 1 ELSE a.count

\* RepeatAction.run, line 74: range(self.count)
RepeatRange(a) == a.count

\* a sequence that takes its steps from the end of the list
SequenceStepReversed(a, i) == a.actions[Len(a.actions) - i]

\* SequentialAction.run, line 101: the step of iteration i, counted from 0
SequenceStep(a, i) == a.actions[i + 1]

\* the iterations of the loop of a frame, and the action run in iteration i
Iterations(a) == IF a.kind = "Repeat" THEN RepeatRange(a) ELSE Len(a.actions)
Child(a, i) == IF a.kind = "Repeat" THEN a.inner ELSE SequenceStep(a, i)

Top == runner.stack[Len(runner.stack)]
Popped == SubSeq(runner.stack, 1, Len(runner.stack) - 1)

\* parse_action called on a record of the layer file
ParseAction(spec) ==
  /\ runner.pc = "idle"
  /\ LET a == parse_action(spec)
     IN /\ last' = Did("parse_action", <<spec>>, active_layers, <<a>>)
        /\ runner' = IF a.st = "ok"
                       THEN [runner EXCEPT !.pc = "parsed", !.action = a.v]
                       ELSE runner
  /\ UNCHANGED <<router, now, last_trigger_time, msg_queue, encoder, watcher, focus,
                 race, dispatch, workers, turned, listener>>

\* Layer.run_action_for_key, line 65: the run method of the action is called
RunCall ==
  /\ runner.pc = "parsed"
  /\ runner' = [runner EXCEPT
                  !.pc = "running",
                  !.stack = <<Frame(runner.action)>>,
                  !.log = <<Event("call", 1, runner.action, 0)>>]
  /\ UNCHANGED <<router, now, last_trigger_time, msg_queue, encoder, last, watcher,
                 focus, race, dispatch, workers, turned, listener>>

\* the return from the run method of the topmost frame
Returned ==
  [runner EXCEPT
     !.pc = IF Len(runner.stack) = 1 THEN "done" ELSE "running",
     !.stack = Popped,
     !.log = Append(@, Event("return", Len(runner.stack), Top.a, 0))]

\* HotkeyAction.run, TypeAction.run and ActivateWindowAction.run
RunLeaf ==
  /\ runner.pc = "running"
  /\ IsLeaf(Top.a)
  /\ runner' = Returned
  /\ UNCHANGED <<router, now, last_trigger_time, msg_queue, encoder, last, watcher,
                 focus, race, dispatch, workers, turned, listener>>

\* RepeatAction.run, lines 74-75, and SequentialAction.run, lines 101-102: the
\* loop goes on with a sleep of the delay
RunSleep ==
  /\ runner.pc = "running"
  /\ ~IsLeaf(Top.a)
  /\ Top.pc = "loop"
  /\ Top.i < Iterations(Top.a)
  /\ runner' = [runner EXCEPT
                  !.stack[Len(runner.stack)].pc = "slept",
                  !.log = Append(@, Event("sleep", Len(runner.stack) + 1, NoAction,
                                          Top.a.delay_ms))]
  /\ UNCHANGED <<router, now, last_trigger_time, msg_queue, encoder, last, watcher,
                 focus, race, dispatch, workers, turned, listener>>

\* RepeatAction.run, line 76, and SequentialAction.run, line 103: the run
\* method of the inner action or of the step is called
RunInner ==
  /\ runner.pc = "running"
  /\ ~IsLeaf(Top.a)
  /\ Top.pc = "slept"
  /\ LET inner == Child(Top.a, Top.i)
     IN runner' = [runner EXCEPT
                     !.stack = Append(Popped, [Top EXCEPT !.i = @ + 1, !.pc = "loop"])
                                 \o <<Frame(inner)>>,
                     !.log = Append(@, Event("call", Len(runner.stack) + 1, inner, 0))]
  /\ UNCHANGED <<router, now, last_trigger_time, msg_queue, encoder, last, watcher,
                 focus, race, dispatch, workers, turned, listener>>

\* RepeatAction.run and SequentialAction.run: the loop is over
RunReturn ==
  /\ runner.pc = "running"
  /\ ~IsLeaf(Top.a)
  /\ Top.pc = "loop"
  /\ Top.i >= Iterations(Top.a)
  /\ runner' = Returned
  /\ UNCHANGED <<router, now, last_trigger_time, msg_queue, encoder, last, watcher,
                 focus, race, dispatch, workers, turned, listener>>

NextAction ==
  \/ \E spec \in ActionSpecs : ParseAction(spec)
  \/ RunCall
  \/ RunLeaf
  \/ RunSleep
  \/ RunInner
  \/ RunReturn

SpecAction == Init /\ [][NextAction]_vars

\* -------------------------------------------------------- the hotkey thread
\* __global_hotkey_thread_loop, step by step: a step is one get_message, one
\* pass of reg_hotkeys or unreg_hotkeys over the twelve keys, or the call of
\* the handler. RegisterHotKey and UnregisterHotKey are taken to succeed. A
\* keystroke F13..F24, pressed by the user or injected by an action, is
\* posted to the thread as a WM_HOTKEY message when the key is registered at
\* that moment, and goes to the focused application otherwise.
HotkeyDocs == {DocFull, DocNoBase}
HotkeyKeys == {"F13", "F16"}

RECURSIVE Injected(_)
RECURSIVE InjectedEach(_)
\* the keystrokes F13..F24 that the run method of an action injects
Injected(a) ==
  CASE a.kind = "Hotkey" -> IF a.hotkey \in KeySet THEN <<a.hotkey>> ELSE <<>>
    [] a.kind = "Sequence" -> InjectedEach(a.actions)
    [] a.kind = "Repeat" -> InjectedEach([i \in 1..a.count |-> a.inner])
    [] OTHER -> <<>>
InjectedEach(actions) ==
  IF actions = <<>> THEN <<>>
  ELSE Injected(Head(actions)) \o InjectedEach(Tail(actions))

\* the WM_HOTKEY messages posted for keystrokes; injected is history
Posted(registered, keys, injected) ==
  LET hot == SelectSeq(keys, LAMBDA k : k \in registered)
  IN [i \in 1..Len(hot) |-> [key |-> hot[i], injected |-> injected]]

\* unreg_hotkeys leaving every hotkey registered
UnregNothing(registered) == registered

\* reg_hotkeys and unreg_hotkeys, lines 185-195: the keys registered after
reg_hotkeys(registered) == registered \cup KeySet
unreg_hotkeys(registered) == registered \ KeySet

\* line 198
ListenerStart ==
  /\ listener.pc = "start"
  /\ listener' = [listener EXCEPT !.pc = "get_message",
                                  !.registered = reg_hotkeys(listener.registered)]
  /\ UNCHANGED <<router, now, last_trigger_time, msg_queue, encoder, last, watcher,
                 focus, race, dispatch, workers, turned, runner>>

\* the user presses a key of the macropad
KeyPressed(key) ==
  /\ listener.pc # "dead"
  /\ key \in listener.registered
  /\ Len(listener.messages) < MaxMessages
  /\ listener' = [listener EXCEPT
                    !.messages = @ \o Posted(listener.registered, <<key>>, FALSE)]
  /\ UNCHANGED <<router, now, last_trigger_time, msg_queue, encoder, last, watcher,
                 focus, race, dispatch, workers, turned, runner>>

\* lines 202-209: a message is taken, its key is one of F13..F24
ListenerGet ==
  /\ listener.pc = "get_message"
  /\ listener.messages # <<>>
  /\ listener' = [listener EXCEPT !.pc = "unreg", !.key = Head(listener.messages).key,
                                  !.messages = Tail(@)]
  /\ UNCHANGED <<router, now, last_trigger_time, msg_queue, encoder, last, watcher,
                 focus, race, dispatch, workers, turned, runner>>

\* line 213
ListenerUnreg ==
  /\ listener.pc = "unreg"
  /\ listener' = [listener EXCEPT !.pc = "handler",
                                  !.registered = unreg_hotkeys(listener.registered)]
  /\ UNCHANGED <<router, now, last_trigger_time, msg_queue, encoder, last, watcher,
                 focus, race, dispatch, workers, turned, runner>>

\* line 214: __shortcut_handler, lines 74-77, calls handle_key_event once
\* Macropadd.run has set it; the actions run inject their keystrokes, and the
\* handler returns, or an exception of an action's run method leaves the
\* loop and ends the thread
ListenerHandler(outcome) ==
  /\ listener.pc = "handler"
  /\ phase # "dead"
  /\ LET ran == IF phase = "running" THEN DispatchKey(active_layers, listener.key)
                ELSE <<>>
         keys == InjectedEach([i \in 1..Len(ran) |-> ran[i].action])
     IN /\ outcome = "raised" => ran # <<>>
        /\ last' = Did("key", <<listener.key>>, active_layers, ran)
        /\ listener' = [listener EXCEPT
                          !.pc = IF outcome = "raised" THEN "dead" ELSE "reg",
                          !.messages = @ \o Posted(listener.registered, keys, TRUE)]
  /\ UNCHANGED <<router, now, last_trigger_time, msg_queue, encoder, watcher,
                 focus, race, dispatch, workers, turned, runner>>

\* line 215
ListenerReg ==
  /\ listener.pc = "reg"
  /\ listener' = [listener EXCEPT !.pc = "get_message",
                                  !.registered = reg_hotkeys(listener.registered)]
  /\ UNCHANGED <<router, now, last_trigger_time, msg_queue, encoder, last, watcher,
                 focus, race, dispatch, workers, turned, runner>>

ListenerNext ==
  \/ ListenerStart
  \/ ListenerGet
  \/ ListenerUnreg
  \/ \E outcome \in {"returned", "raised"} : ListenerHandler(outcome)
  \/ ListenerReg

NextHotkeys ==
  \/ \E doc \in HotkeyDocs : Startup(doc)
  \/ \E key \in HotkeyKeys : KeyPressed(key)
  \/ ListenerNext

SpecHotkeys == Init /\ [][NextHotkeys]_vars

\* The hotkey thread is scheduled again and again, and none of its steps
\* blocks except get_message on an empty queue
SpecHotkeysFair == SpecHotkeys /\ WF_vars(ListenerNext)

\* ------------------------------------------------------------------ claims
IsDefaultLayer(l) == l.id[2] = "<default>"
IsApplicationLayer(l) == l.application # NoApplication
BaseOf(table) == IF HasKey(table, "base") THEN <<Lookup(table, "base")>> ELSE <<>>

\* the layers of a stack that bind a key, as indices
Binders(layers, key) == {i \in 1..Len(layers) : key \in DOMAIN layers[i].key_actions}
Topmost(is) == CHOOSE i \in is : \A j \in is : j <= i

\* C1: a key event runs exactly one action, the binding of the topmost layer
\* of the stack that binds the key, and no binding of a layer below it.
C1_TopmostBindingRuns ==
  (last.op = "key" /\ Binders(active_layers, last.input[1]) # {}) =>
    LET top == active_layers[Topmost(Binders(active_layers, last.input[1]))]
    IN last.ran = <<[layer |-> top.id, action |-> top.key_actions[last.input[1]]]>>

\* a key bound by the default layer, base and the application layer on top
C1_Witness ==
  /\ last.op = "key"
  /\ Len(active_layers) = 3
  /\ Binders(active_layers, last.input[1]) = {1, 2, 3}
  /\ IsApplicationLayer(active_layers[3])
  /\ active_layers[3].key_actions[last.input[1]]
       # active_layers[2].key_actions[last.input[1]]

\* C2: the active stack holds at most one application-bound layer, and that
\* layer is its topmost element.
C2_OneApplicationLayerOnTop ==
  \A i \in 1..Len(active_layers) :
    IsApplicationLayer(active_layers[i]) => i = Len(active_layers)

\* C4: after a reload the stack is [default, base] with the base of the new
\* table when it has one, and [default] otherwise.
C4_ReloadCollapses ==
  last.op = "reload" =>
    /\ Len(active_layers) = 1 + Len(BaseOf(all_layers))
    /\ IsDefaultLayer(active_layers[1])
    /\ Tail(active_layers) = BaseOf(all_layers)

\* a reload that dropped an application layer and kept a base
C4_Witness ==
  /\ last.op = "reload"
  /\ Len(last.before) = 3
  /\ Len(active_layers) = 2

\* the first layer of the table, in definition order, bound to a process
FirstBound(table, process) ==
  LET hits == {i \in 1..Len(table) : table[i].layer.application = process}
  IN table[CHOOSE i \in hits : \A j \in hits : i <= j].layer
Bound(table, process) ==
  \E i \in 1..Len(table) : table[i].layer.application = process

\* C5: a focus change to a process some layer is bound to leaves the stack
\* [default, base?, L], L the first layer bound to the process.
C5_FocusPushesOnStripped ==
  (last.op = "focus" /\ Bound(all_layers, Basename(last.input))) =>
    /\ IsDefaultLayer(active_layers[1])
    /\ Tail(active_layers)
         = BaseOf(all_layers) \o <<FirstBound(all_layers, Basename(last.input))>>

\* C6: a focus change to a process no layer is bound to leaves the stack
\* [default, base?].
C6_FocusWithoutLayerStrips ==
  (last.op = "focus" /\ ~Bound(all_layers, Basename(last.input))) =>
    /\ IsDefaultLayer(active_layers[1])
    /\ Tail(active_layers) = BaseOf(all_layers)

\* a document parse_layers cannot turn into a table
FailsToParse(doc) ==
  \/ doc.st # "mapping"
  \/ \E i \in 1..Len(doc.root) :
       from_spec_dict(doc.root[i].spec, <<0, doc.root[i].key>>).st # "ok"

\* C9: a file event that triggers a reload of a file that fails to parse
\* calls no callback, leaves the layer table and the active stack as they
\* were, and the watcher handler returns normally.
C9_FailedReloadChangesNothing ==
  [][\A doc \in Docs :
       (/\ OnModified(doc)
        /\ now - last_trigger_time >= DebounceTicks
        /\ FailsToParse(doc)) =>
         (/\ all_layers' = all_layers
          /\ active_layers' = active_layers
          /\ generation' = generation
          /\ phase' = "running"
          /\ last'.op = "reload_failed")]_vars

\* a failed reload of a file with a bad entry, under an application layer
C9_Witness ==
  /\ last.op = "reload_failed"
  /\ last.input = <<"mapping">>
  /\ Len(active_layers) = 3
  /\ IsApplicationLayer(active_layers[3])

\* the signed 8-bit value congruent to new - prev modulo 256
Signed8(new, prev) == CHOOSE d \in -128..127 : (d - (new - prev)) % 256 = 0

\* the handle_encoder_inc and handle_encoder_dec calls of a report, in order
Steps(calls) ==
  [i \in 1..Len(SelectSeq(calls, LAMBDA c : c.event # "btn")) |->
     SelectSeq(calls, LAMBDA c : c.event # "btn")[i].event]

C10_WitnessHalfTurn ==
  /\ last.op = "report"
  /\ last.prev_rot = 0
  /\ last.input[2] = 128
  /\ Steps(last.ran) = [i \in 1..128 |-> "dec"]

\* C3: once running, the active stack is never empty and its bottom element
\* is the default layer, also while a reload and a focus change interleave.
C3_DefaultAtBottom ==
  phase = "running" => (active_layers # <<>> /\ IsDefaultLayer(active_layers[1]))

\* the table and stack after set_layers(layers) on a router state
AfterReload(state, call) ==
  [all_layers |-> call.layers, active_layers |-> NewActive(call.layers, call.gen)]
\* the table and stack after handle_process_change(path) on a router state
AfterFocus(state, call) ==
  [all_layers |-> state.all_layers,
   active_layers |-> ProcessChange(state.active_layers, state.all_layers, call.path)]
After(state, call) ==
  IF call.op = "reload" THEN AfterReload(state, call) ELSE AfterFocus(state, call)

\* C7: when one reload and one focus change have overlapped and both are
\* done, the layer table and the active stack are those of running the two
\* calls one after the other, in one of the two orders.
C7_ReloadAndFocusSerialize ==
  (/\ watcher.pc = "idle"
   /\ focus.pc \in {"idle", "profile", "bottom", "overlay"}
   /\ Len(race.calls) = 2
   /\ race.calls[1].op # race.calls[2].op) =>
    LET start == [all_layers |-> race.all_layers, active_layers |-> race.active_layers]
        now_ == [all_layers |-> all_layers, active_layers |-> active_layers]
    IN \/ now_ = After(After(start, race.calls[1]), race.calls[2])
       \/ now_ = After(After(start, race.calls[2]), race.calls[1])
\* the layers a dispatch has examined are the layers of its copy, top first
SearchedFromCopy(t) ==
  /\ Len(t.searched) <= Len(t.layers)
  /\ \A k \in 1..Len(t.searched) :
       t.searched[k] = t.layers[Len(t.layers) - k + 1].id

\* C8: every dispatch (key, encoder inc, encoder dec, encoder button) searches
\* the copy of the stack it took when it started: whatever reload or focus
\* change completes while it runs, the layers it examines are those of the
\* copy, from the top down.
C8_DispatchSearchesSnapshot ==
  SearchedFromCopy(hotkey) /\ SearchedFromCopy(hid)

\* a key dispatch and an encoder dispatch each examined a layer of their copy
\* after the stack had been replaced by another
C8_Witness ==
  /\ hotkey.pc = "return" /\ hotkey.changed /\ Len(hotkey.searched) >= 2
  /\ hid.pc = "calls" /\ hid.changed /\ Len(hid.searched) >= 2
\* the handle_encoder_button dispatches among the calls of a report
Presses(calls) == Len(SelectSeq(calls, LAMBDA c : c.event = "btn"))

\* C11: the encoder button is edge-triggered. The stored button state starts
\* not-pressed and after every encoder report is the state that report
\* carried; a report dispatches the button once when it is pressed and the
\* stored state is not-pressed, and not at all otherwise, so the dispatches
\* of a run are its pressed reports that directly follow a not-pressed state.
C11_ButtonEdgeTriggered ==
  [][\A data \in Reports :
       (HidReport(data) /\ phase = "running") =>
         LET parsed == parse_encoder_hid_data(data)
         IN IF parsed = <<>>
              THEN /\ last_encoder_btn_state' = last_encoder_btn_state
                   /\ Presses(last'.ran) = 0
              ELSE /\ last_encoder_btn_state' = parsed[2]
                   /\ Presses(last'.ran) =
                        IF parsed[2] /\ ~last_encoder_btn_state THEN 1 ELSE 0]_vars

\* a pressed report that follows a pressed report and dispatches nothing
C11_Witness ==
  /\ last.op = "report"
  /\ parse_encoder_hid_data(last.input) # <<>>
  /\ last.input[3] = 1
  /\ last_encoder_btn_state
  /\ last.prev_rot # -1
  /\ Presses(last.ran) = 0

\* a pressed report that follows a not-pressed state and dispatches once
C11_WitnessEdge ==
  /\ last.op = "report"
  /\ parse_encoder_hid_data(last.input) # <<>>
  /\ last.input[3] = 1
  /\ Presses(last.ran) = 1
\* C12: every focus change that leaves a non-empty stack puts exactly two
\* messages on the queue: first the profile-name message of the topmost
\* layer's name, then one key-label message.
C12_FocusEmitsProfileUpdate ==
  [][\A path \in Paths :
       (FocusChanged(path) /\ active_layers' # <<>>) =>
         /\ Len(msg_queue') = Len(msg_queue) + 2
         /\ SubSeq(msg_queue', 1, Len(msg_queue)) = msg_queue
         /\ msg_queue'[Len(msg_queue) + 1] =
              ProfileMessage(active_layers'[Len(active_layers')].name)
         /\ msg_queue'[Len(msg_queue) + 2].type = 4]_vars
\* C13: every reload that installs a table and leaves a non-empty stack puts
\* the profile-name message of the rebuilt stack's topmost layer and a
\* key-label message on the queue.
C13_ReloadEmitsProfileUpdate ==
  [][\A doc \in Docs :
       (OnModified(doc) /\ last'.op = "reload" /\ active_layers' # <<>>) =>
         /\ Len(msg_queue') = Len(msg_queue) + 2
         /\ msg_queue'[Len(msg_queue) + 1] =
              ProfileMessage(active_layers'[Len(active_layers')].name)
         /\ msg_queue'[Len(msg_queue) + 2].type = 4]_vars
\* the label of key position i in the topmost layer of the stack that has
\* one, None when no layer has
TopLabel(active, i) ==
  LET have == {j \in 1..Len(active) : get_key_names(active[j])[i] # None}
  IN IF have = {} THEN None
     ELSE get_key_names(active[CHOOSE j \in have : \A k \in have : k <= j])[i]

\* C14: the key-label message of a profile update carries, for each of the 12
\* key positions, the label of the topmost layer of the stack that has a
\* label for the key, and no label only when no layer has one.
C14_LabelsMergedPerKey ==
  [][\A path \in Paths :
       (/\ FocusChanged(path)
        /\ Len(msg_queue') = Len(msg_queue) + 2) =>
         msg_queue'[Len(msg_queue')] =
           KeyNamesMessage([i \in 1..Len(VALID_KEY_NAMES) |->
                              TopLabel(active_layers', i)]).v]_vars

\* a focus change put the labels of [default, base, code] on the queue: F13
\* from base, F14 from the application layer over base, F15 from default
C14_Witness ==
  /\ last.op = "focus"
  /\ Len(active_layers) = 3
  /\ msg_queue # <<>>
  /\ msg_queue[Len(msg_queue)].type = 4
  /\ get_key_names(active_layers[2])[2] = <<"B">>
  /\ TopLabel(active_layers, 1) = <<"A">>
  /\ TopLabel(active_layers, 2) = <<"X">>
  /\ TopLabel(active_layers, 3) = <<"F", "1", "5">>
\* the bindings of a layer record whose action parses
ValidBindings(spec) ==
  LET keys == {k \in DOMAIN spec \cap KeySet : parse_action(spec[k]).st = "ok"}
  IN [k \in keys |-> parse_action(spec[k]).v]

\* every entry of the document is a record with a name
AllNamed(doc) ==
  /\ doc.st = "mapping"
  /\ \A i \in 1..Len(doc.root) :
       IsDict(doc.root[i].spec) /\ "name" \in DOMAIN doc.root[i].spec

\* C15: layer construction is lenient. A reload of a file whose layer records
\* all have a name installs one layer per record, and each layer keeps
\* exactly the bindings of its record whose action parses; a binding whose
\* action fails to parse is the only thing omitted.
C15_LenientLayerConstruction ==
  [][\A doc \in Docs :
       (/\ OnModified(doc)
        /\ now - last_trigger_time >= DebounceTicks
        /\ AllNamed(doc)) =>
         /\ last'.op = "reload"
         /\ Len(all_layers') = Len(doc.root)
         /\ \A i \in 1..Len(doc.root) :
              all_layers'[i].layer.key_actions = ValidBindings(doc.root[i].spec)]_vars
\* C16: the outbound queue is bounded: a send that finds the queue at its
\* capacity drops the message, so while no device is connected the queue
\* stops growing before the largest backlog followed here.
C16_QueueBounded == Len(msg_queue) < MaxBacklog
\* C17: while the stop flag is not set no device worker has left its loop,
\* and a worker whose device has had an I/O fault is on its way to close the
\* device and go back to discovery.
C17_WorkersRecover ==
  /\ ~stop => (sender.pc # "exited" /\ reader.pc # "exited")
  /\ sender.faulted => sender.pc = "close"
  /\ reader.faulted => reader.pc = "close"

\* C18: after a write to the device has failed the send thread writes no
\* further message before it has closed the device.
C18_WriteFailureDisconnects ==
  [][\A outcome \in {"written", "failed", "raised"} :
       SenderWrite(outcome) => ~sender.faulted]_vars

\* C19: once the stop flag is set each device worker begins at most one more
\* wait, and both workers leave their loops.
C19_WorkersExit ==
  /\ [](sender.waits <= 1 /\ reader.waits <= 1)
  /\ (stop ~> (sender.pc = "exited" /\ reader.pc = "exited"))

\* both workers have left their loops, each after one wait that began after
\* the flag was set, the send thread with a message still queued
C19_Witness ==
  /\ stop
  /\ sender.pc = "exited" /\ sender.waits = 1
  /\ reader.pc = "exited" /\ reader.waits = 1
  /\ msg_queue # <<>>
\* an encoder report: three bytes, the first of them the tag 2
IsEncoderReport(data) == Len(data) = 3 /\ data[1] = 2

\* the button dispatch, if any, is the last of the calls
ButtonLast(calls) ==
  \A i \in 1..Len(calls) : calls[i].event = "btn" => i = Len(calls)

\* C20: a report of exactly three bytes with tag 2 is handled by the encoder
\* handler with its second byte, then by the button handler with the truth
\* value of its third; a report of any other shape calls no handler and
\* leaves the last reading, the last button state and the stack as they were.
C20_OnlyEncoderReportsHandled ==
  [][\A data \in Reports :
       (HidReport(data) /\ phase = "running") =>
         IF IsEncoderReport(data)
           THEN /\ last_encoder_rot' = data[2]
                /\ last_encoder_btn_state' = (data[3] # 0)
                /\ ButtonLast(last'.ran)
                /\ active_layers' = active_layers
           ELSE /\ last_encoder_rot' = last_encoder_rot
                /\ last_encoder_btn_state' = last_encoder_btn_state
                /\ active_layers' = active_layers
                /\ last'.ran = <<>>]_vars

\* a report of four bytes with tag 2, read after a pressed reading of 122
\* had been stored, changed nothing
C20_Witness ==
  /\ last.op = "report"
  /\ last.input = <<2, 10, 1, 0>>
  /\ last.ran = <<>>
  /\ last.prev_rot = 122
  /\ last_encoder_rot = 122
  /\ last_encoder_btn_state

\* C21: every message on the outbound queue is a type byte 3 followed by 18
\* bytes or a type byte 4 followed by 48 bytes, and the send thread's
\* assertion on the type byte never fails; the message send_profile_name
\* puts is the ASCII characters of the first 18 of the name followed by
\* zeros, and the message send_key_names puts is twelve fields of 4
\* characters, field k being the label at logical position WireOrder[k]
\* cut or blank-padded to 4 (4 blanks for an absent label)
WireOrder == <<9, 10, 11, 12, 5, 6, 7, 8, 1, 2, 3, 4>>

FixedFormat(msg) ==
  \/ msg.type = 3 /\ Len(msg.body) = 18
  \/ msg.type = 4 /\ Len(msg.body) = 48

IsProfileRecord(msg, name) ==
  /\ msg.type = 3
  /\ Len(msg.body) = 18
  /\ \E k \in 0..18 :
       /\ SubSeq(msg.body, 1, k)
            = SelectSeq(SubSeq(name, 1, IF Len(name) < 18 THEN Len(name) ELSE 18),
                        LAMBDA c : c \notin NonAscii)
       /\ \A i \in (k + 1)..18 : msg.body[i] = "NUL"

IsLabelRecord(msg, key_names) ==
  /\ msg.type = 4
  /\ Len(msg.body) = 48
  /\ \A k \in 1..12 : \A j \in 1..4 :
       LET n == key_names[WireOrder[k]]
       IN msg.body[4 * (k - 1) + j]
            = IF n # None /\ j <= Len(n) THEN n[j] ELSE " "

C21_Queued ==
  /\ \A i \in 1..Len(msg_queue) : FixedFormat(msg_queue[i])
  /\ sender.pc # "crashed"

C21_Sent ==
  /\ \A name \in ProfileNames :
       SendProfileName(name)
         => /\ Len(msg_queue') = Len(msg_queue) + 1
            /\ IsProfileRecord(msg_queue'[Len(msg_queue')], name)
  /\ \A key_names \in LabelLists :
       SendKeyNames(key_names)
         => \/ msg_queue' = msg_queue
            \/ /\ Len(msg_queue') = Len(msg_queue) + 1
               /\ IsLabelRecord(msg_queue'[Len(msg_queue')], key_names)

C21_MessagesHaveFixedFormat == []C21_Queued /\ [][C21_Sent]_vars

\* a name of 19 characters was cut to 18, and labels among which some are
\* absent and one is over-long were put on the queue behind it
C21_Witness ==
  /\ Len(msg_queue) = 2
  /\ msg_queue[1] = [type |-> 3, body |-> Repeated("a", 18)]
  /\ last.op = "send_key_names"
  /\ last.input = MixedLabels
  /\ msg_queue[2].type = 4
  /\ SubSeq(msg_queue[2].body, 33, 36) = <<"P", "a", "s", "t">>

\* the variants in the order of recognition, and the first of them whose
\* field a record carries
VariantOrder == <<"hotkey", "type", "activateWindow", "sequence", "repeat">>
VariantKind == <<"Hotkey", "Type", "Activate", "Sequence", "Repeat">>
FirstVariant(spec) ==
  LET present == {i \in 1..5 : VariantOrder[i] \in DOMAIN spec}
  IN IF present = {} THEN 0 ELSE CHOOSE i \in present : \A j \in present : i <= j

\* the record with the field of one variant, and the name, alone
Only(spec, i) ==
  [k \in DOMAIN spec \cap {VariantOrder[i], "name"} |-> spec[k]]

\* C22: parse_action applied to a record that carries the field of at least
\* one variant gives what it gives for the record with the field of the
\* first such variant (in the order hotkey, type, activateWindow, sequence,
\* repeat) alone: an action of that variant, or the failure of that variant;
\* the fields of the later variants change nothing.
C22_FirstVariantWins ==
  (/\ last.op = "parse_action"
   /\ IsDict(last.input[1])
   /\ FirstVariant(last.input[1]) # 0)
    => LET spec == last.input[1]
           i == FirstVariant(spec)
           r == last.ran[1]
       IN /\ r = parse_action(Only(spec, i))
          /\ r.st = "ok" => r.v.kind = VariantKind[i]
          /\ i <= 3 => r.st = "ok"
          /\ i = 1 => r.v.hotkey = spec["hotkey"]
          /\ i = 2 => r.v.text = spec["type"]
          /\ i = 3 => r.v.program_path = spec["activateWindow"]

\* a record with a hotkey, a sequence that is no mapping and a repeat without
\* its action was parsed to the hotkey action
C22_Witness ==
  /\ last.op = "parse_action"
  /\ last.input[1] = [hotkey |-> "ctrl+c", sequence |-> SeqBad, repeat |-> RepBad]
  /\ last.ran[1] = Ok(HotkeyAction("ctrl+c", <<>>))

\* the calls logged, the return that ends a call (0 while it runs), and what
\* the run method called at p has done itself so far: its sleeps, and the
\* calls of and returns from the run methods it called
CallsLogged == {p \in 1..Len(runner.log) : runner.log[p].ev = "call"}
ReturnOf(p) ==
  LET rs == {q \in (p + 1)..Len(runner.log) :
               /\ runner.log[q].ev = "return"
               /\ runner.log[q].depth = runner.log[p].depth}
  IN IF rs = {} THEN 0 ELSE CHOOSE q \in rs : \A r \in rs : q <= r
Direct(p) ==
  SelectSeq(SubSeq(runner.log, p + 1,
                   IF ReturnOf(p) = 0 THEN Len(runner.log) ELSE ReturnOf(p) - 1),
            LAMBDA e : e.depth = runner.log[p].depth + 1)

\* for each action of a list in order: one sleep of the delay, the call of
\* its run method, the return from it
SleepRunEach(depth, delay_ms, actions) ==
  [k \in 1..(3 * Len(actions)) |->
     LET a == actions[(k + 2) \div 3]
     IN CASE k % 3 = 1 -> [ev |-> "sleep", depth |-> depth, a |-> NoAction, ms |-> delay_ms]
          [] k % 3 = 2 -> [ev |-> "call", depth |-> depth, a |-> a, ms |-> 0]
          [] k % 3 = 0 -> [ev |-> "return", depth |-> depth, a |-> a, ms |-> 0]]

IsPrefix(s, t) == Len(s) <= Len(t) /\ SubSeq(t, 1, Len(s)) = s

\* what the run method called at p does is what is expected of it: a part
\* of it while it runs, the whole of it once it has returned
Follows(p, expected) ==
  IF ReturnOf(p) = 0 THEN IsPrefix(Direct(p), expected) ELSE Direct(p) = expected

\* C23: a run of a Repeat, at the top or nested, does count times: one sleep
\* of its delay, then one call of the inner action's run, which returns; it
\* does nothing else and returns after the last of them; with count 0 it
\* runs nothing.
C23_RepeatRunsCountTimes ==
  \A p \in CallsLogged :
    LET a == runner.log[p].a
    IN a.kind = "Repeat"
         => Follows(p, SleepRunEach(runner.log[p].depth + 1, a.delay_ms,
                                    [j \in 1..a.count |-> a.inner]))

\* a Repeat of count 3 and delay 50 has returned after three sleeps of 50 ms,
\* each followed by one run of its inner action
C23_Witness ==
  /\ runner.pc = "done"
  /\ runner.action.kind = "Repeat"
  /\ runner.action.count = 3
  /\ Len(SelectSeq(runner.log, LAMBDA e : e.ev = "sleep" /\ e.ms = 50)) = 3
  /\ Len(SelectSeq(runner.log, LAMBDA e : e.ev = "call" /\ e.a = runner.action.inner)) = 3

\* a Repeat of count 0 has returned and nothing was run
C23_WitnessZero ==
  /\ runner.pc = "done"
  /\ runner.action.kind = "Repeat"
  /\ runner.action.count = 0
  /\ Len(runner.log) = 2

\* C24: a run of a Sequence, at the top or nested, does for each step in list
\* order: one sleep of its delay, then one call of the step's run, which
\* returns before the next sleep; it does nothing else; the steps may be
\* Sequence and Repeat actions.
C24_SequenceRunsStepsInOrder ==
  \A p \in CallsLogged :
    LET a == runner.log[p].a
    IN a.kind = "Sequence"
         => Follows(p, SleepRunEach(runner.log[p].depth + 1, a.delay_ms, a.actions))

\* a Sequence of a Sequence, a Repeat and a third step has returned, and the
\* three were run in that order
C24_Witness ==
  /\ runner.pc = "done"
  /\ runner.action.kind = "Sequence"
  /\ Len(runner.action.actions) = 3
  /\ runner.action.actions[1].kind = "Sequence"
  /\ runner.action.actions[2].kind = "Repeat"
  /\ [k \in 1..3 |-> SelectSeq(runner.log,
                               LAMBDA e : e.ev = "call" /\ e.depth = 2)[k].a]
       = runner.action.actions

\* C26: parse_action applied to a record of the sequence variant whose list
\* of steps is empty fails with a parse error.
C26_EmptySequenceRejected ==
  (/\ last.op = "parse_action"
   /\ IsDict(last.input[1])
   /\ FirstVariant(last.input[1]) = 4
   /\ last.input[1]["sequence"] = SeqEmpty)
    => last.ran[1].st = "raise"

\* C25: a modification event that comes less than 500 ms (DebounceTicks ticks
\* of 250 ms) after the trigger time starts no reload and leaves the trigger
\* time as it is; an event that comes 500 ms or more after it makes one
\* reload attempt (which replaces the layers or fails) and the time of the
\* event becomes the trigger time.
C25_Event ==
  \A doc \in Docs :
    OnModified(doc)
      => IF now - last_trigger_time < DebounceTicks
           THEN /\ last'.op = "debounced"
                /\ last_trigger_time' = last_trigger_time
                /\ <<all_layers, active_layers, generation>>'
                     = <<all_layers, active_layers, generation>>
           ELSE /\ last'.op \in {"reload", "reload_failed"}
                /\ last_trigger_time' = now
                /\ last'.op = "reload" <=> generation' = generation + 1
                /\ last'.op = "reload_failed"
                     <=> <<all_layers, active_layers, generation>>'
                           = <<all_layers, active_layers, generation>>

C25_EventsDebounced == [][C25_Event]_vars

\* an event was ignored 250 ms after an event that reloaded the layers
C25_Witness ==
  /\ last.op = "debounced"
  /\ generation = 2
  /\ now = last_trigger_time + 1

DefaultAt(layers) ==
  IF \E i \in 1..Len(layers) : IsDefaultLayer(layers[i])
    THEN CHOOSE i \in 1..Len(layers) : IsDefaultLayer(layers[i])
    ELSE 0

\* C28: while the default layer is in the active stack, a key event for any
\* of F13..F24 runs exactly one action, so none is unhandled, and for a key
\* that no layer above the default layer binds the action is the hotkey of
\* that key itself; the key event handled last did so.
C28_DefaultLayerHandlesEveryKey ==
  DefaultAt(active_layers) # 0
    => /\ \A key \in KeySet :
            LET ran == DispatchKey(active_layers, key)
            IN /\ Len(ran) = 1
               /\ (\A i \in Binders(active_layers, key) : i <= DefaultAt(active_layers))
                    => /\ ran[1].action.kind = "Hotkey"
                       /\ ran[1].action.hotkey = key
       /\ last.op = "key"
            => /\ Len(last.ran) = 1
               /\ last.ran = DispatchKey(active_layers, last.input[1])

\* F16, which neither base nor the application layer on top binds, was
\* pressed and the default layer's hotkey F16 ran
C28_Witness ==
  /\ last.op = "key"
  /\ last.input[1] = "F16"
  /\ Len(active_layers) = 3
  /\ Binders(active_layers, "F16") = {1}
  /\ IsDefaultLayer(active_layers[1])
  /\ last.ran[1].action = [kind |-> "Hotkey", name |-> <<"F", "1", "6">>, hotkey |-> "F16"]

NoEncoderAction(l) ==
  /\ l.encoder_inc_action = NoAction
  /\ l.encoder_dec_action = NoAction
  /\ l.encoder_btn_action = NoAction

\* C29: no layer of the layer table or of the active stack has an action for
\* the dial turned forward, turned back or pressed, and every
\* handle_encoder_inc, handle_encoder_dec and handle_encoder_button dispatch
\* of a report runs no action of any layer, so it ends unhandled.
C29_EncoderEventsUnhandled ==
  /\ \A i \in 1..Len(all_layers) : NoEncoderAction(all_layers[i].layer)
  /\ \A i \in 1..Len(active_layers) : NoEncoderAction(active_layers[i])
  /\ last.op = "report" => \A k \in 1..Len(last.ran) : last.ran[k].ran = <<>>

\* on a stack of the default layer and base a report turned the dial
\* forward and pressed its button: an inc and a button dispatch, both
\* unhandled
C29_Witness ==
  /\ last.op = "report"
  /\ Len(active_layers) = 2
  /\ \E k \in 1..Len(last.ran) : last.ran[k].event = "inc"
  /\ \E k \in 1..Len(last.ran) : last.ran[k].event = "btn"
  /\ \A k \in 1..Len(last.ran) : last.ran[k].ran = <<>>

\* C30: while the handler called for a hotkey runs, none of the twelve keys
\* is registered; while the thread waits for a message all twelve are; no
\* WM_HOTKEY message is ever posted for a keystroke that an action injected,
\* so the handler is entered for keys the user pressed alone; and once the
\* handler has returned the twelve keys get registered again.
C30_Bracket ==
  /\ listener.pc = "handler" => listener.registered \cap KeySet = {}
  /\ listener.pc = "get_message" => KeySet \subseteq listener.registered
  /\ \A i \in 1..Len(listener.messages) : ~listener.messages[i].injected

C31_Step ==
  /\ msg_queue' # msg_queue
       => \/ /\ SenderGet
             /\ device
             /\ sender'.msg = Head(msg_queue)
             /\ msg_queue' = Tail(msg_queue)
          \/ /\ Len(msg_queue') > Len(msg_queue)
             /\ SubSeq(msg_queue', 1, Len(msg_queue)) = msg_queue
  /\ \A outcome \in {"written", "failed", "raised"} :
       SenderWrite(outcome) => outcome = "written"

C31_WrittenInOrderOnce == [][C31_Step]_vars

====
